---- MODULE Spec2Model ----
(***************************************************************************)
(* A model of aumai-smartgram's in-memory components                        *)
(* (src/src/aumai_smartgram/core.py, models.py).                            *)
(*                                                                         *)
(* Representation choices                                                  *)
(*   - a Python dict is a sequence of values in insertion order, unique by *)
(*     key: assigning an existing key replaces the value in place (the     *)
(*     key keeps the position of its first insertion), a new key appends;  *)
(*   - Optional[str] is a sequence of length <= 1: None is << >> and the    *)
(*     string s is <<s>>, so that None and "" are different values;        *)
(*   - a float rounded to one decimal (round(x, 1)) is held as an integer  *)
(*     number of tenths: 33.3 is 333, 100.0 is 1000.  round() rounds half  *)
(*     to even.  The amounts drawn below are integers for which the        *)
(*     double-precision quotient rounds like the exact one.                *)
(***************************************************************************)
EXTENDS Integers, Sequences, FiniteSets, TLC

VARIABLES
    panchayats,      \* PanchayatRegistry._panchayats
    lastRegistered,  \* history: per id, the unit last passed to register
    replaced,        \* history: ids a register call overwrote with another unit
    regLog,          \* history: the ids of the register calls, in call order
    requests,        \* ServiceTracker._requests
    changedAway,     \* history: ids of stored requests update_status moved off "pending"
    allocations,     \* BudgetAnalyzer._allocations
    meetings,        \* MeetingManager._meetings
    calls,           \* history: the numbers of add and of record calls made
    lastQuery,       \* the query last called, <<operation, argument>>, when no
                     \* mutating call was made since
    answered,        \* what that query returned
    repeated,        \* whether that call repeated the call before it
    assigned,        \* the fields callers have assigned on the SchemeInfo objects
                     \* of _SCHEMES: <<reference, field name>> -> value
    schemes,         \* SchemeMapper._schemes: a list of references
    returned,        \* the list a SchemeMapper call last gave its caller
    lastCall,        \* the SchemeMapper call last made, with its arguments
    requests2,       \* ServiceTracker._requests of a second tracker
    shared,          \* ids whose request object is stored in both trackers
    actor            \* the tracker the last call was made on

registryVars == <<panchayats, lastRegistered, replaced, regLog>>

trackerVars == <<requests, changedAway>>

budgetVars == <<allocations>>

meetingVars == <<meetings>>

callVars == <<calls>>

queryVars == <<lastQuery, answered, repeated>>

catalogVars == <<assigned, schemes, returned, lastCall>>

secondTrackerVars == <<requests2, shared, actor>>

vars == <<panchayats, lastRegistered, replaced, regLog, requests, changedAway, allocations, meetings, calls,
          lastQuery, answered, repeated,
          assigned, schemes, returned, lastCall, requests2, shared, actor>>

----------------------------------------------------------------------------
(* Bounds of the model                                                      *)

MaxUnits == 2
MaxRequests == 2
MaxAllocations == 3
MaxScenarioAllocations == 4
MaxEditedRecords == 1
MaxRegisterCalls == 4
MaxMeetings == 3

----------------------------------------------------------------------------
(* Python values                                                            *)

None == << >>

Some(s) == <<s>>

\* bool(x) of an Optional[str]: None and "" are falsy
Truthy(opt) == opt # None /\ opt[1] # ""

Range(seq) == {seq[i] : i \in 1..Len(seq)}

\* str.lower() of the letters A..Z; every other character is kept
UpperToLower ==
    ("A" :> "a") @@ ("B" :> "b") @@ ("C" :> "c") @@ ("D" :> "d") @@
    ("E" :> "e") @@ ("F" :> "f") @@ ("G" :> "g") @@ ("H" :> "h") @@
    ("I" :> "i") @@ ("J" :> "j") @@ ("K" :> "k") @@ ("L" :> "l") @@
    ("M" :> "m") @@ ("N" :> "n") @@ ("O" :> "o") @@ ("P" :> "p") @@
    ("Q" :> "q") @@ ("R" :> "r") @@ ("S" :> "s") @@ ("T" :> "t") @@
    ("U" :> "u") @@ ("V" :> "v") @@ ("W" :> "w") @@ ("X" :> "x") @@
    ("Y" :> "y") @@ ("Z" :> "z")

lower(s) ==
    [i \in 1..Len(s) |-> IF s[i] \in DOMAIN UpperToLower
                         THEN UpperToLower[s[i]]
                         ELSE s[i]]

\* sub in s, for strings held as sequences of characters
substring_in(sub, s) ==
    \E k \in 0..(Len(s) - Len(sub)) : \A i \in 1..Len(sub) : s[k + i] = sub[i]

\* round(): the integer nearest to num / den, a tie going to the even one
RoundHalfEven(num, den) ==
    LET q == num \div den
        r == num % den
    IN  IF 2 * r < den THEN q
        ELSE IF 2 * r > den THEN q + 1
        ELSE IF q % 2 = 0 THEN q ELSE q + 1

\* round(num / den, 1), in tenths
round1(num, den) == RoundHalfEven(num * 10, den)

----------------------------------------------------------------------------
(* models.py: the entities and their field constraints                      *)

\* the constraints of GramPanchayat with >= in the place of >
GramPanchayat_nonnegative(p) ==
    /\ p.population >= 0
    /\ p.households >= 0
    /\ p.area_sq_km >= 0

GramPanchayat(p) ==
    /\ p.population > 0
    /\ p.households > 0
    /\ p.area_sq_km > 0

ServiceRequest(r) ==
    /\ r.priority >= 1
    /\ r.priority <= 5

ServiceCategory == {"infrastructure", "welfare", "agriculture", "health",
                    "education", "sanitation", "water", "roads"}

BudgetAllocation(a) ==
    /\ a.allocated_amount >= 0
    /\ a.utilized_amount >= 0

MeetingRecord(m) == m.attendees_count >= 0

\* a percentage cut off after the first decimal instead of rounded
utilization_pct_truncated(a) ==
    IF a.allocated_amount = 0 THEN 0
    ELSE (a.utilized_amount * 1000) \div a.allocated_amount

\* BudgetAllocation.utilization_pct, in tenths of a percent
utilization_pct(a) ==
    IF a.allocated_amount = 0 THEN 0
    ELSE round1(a.utilized_amount * 100, a.allocated_amount)

----------------------------------------------------------------------------
(* A dict as a sequence in insertion order                                  *)

\* the position of the value whose key field is k, 0 when absent
IndexOfUnit(seq, k) ==
    IF \E i \in 1..Len(seq) : seq[i].panchayat_id = k
    THEN CHOOSE i \in 1..Len(seq) : seq[i].panchayat_id = k
    ELSE 0

IndexOfRequest(seq, k) ==
    IF \E i \in 1..Len(seq) : seq[i].request_id = k
    THEN CHOOSE i \in 1..Len(seq) : seq[i].request_id = k
    ELSE 0

----------------------------------------------------------------------------
(* PanchayatRegistry                                                        *)

\* a register that takes the id out and stores the unit at the end
register_moves_to_end(units, panchayat) ==
    LET Other(p) == p.panchayat_id # panchayat.panchayat_id
    IN  Append(SelectSeq(units, Other), panchayat)

\* a register that keeps the unit already stored under the id
register_keep_first(units, panchayat) ==
    IF IndexOfUnit(units, panchayat.panchayat_id) = 0
    THEN Append(units, panchayat)
    ELSE units

register(units, panchayat) ==
    LET i == IndexOfUnit(units, panchayat.panchayat_id)
    IN  IF i = 0 THEN Append(units, panchayat)
        ELSE [units EXCEPT ![i] = panchayat]

\* the stored unit as an Optional: None when the id is not registered
get(units, panchayat_id) ==
    LET i == IndexOfUnit(units, panchayat_id)
    IN  IF i = 0 THEN None ELSE Some(units[i])

all_panchayats(units) == units

\* population / area cut off after the first decimal instead of rounded
population_density_truncated(units, panchayat_id) ==
    LET i == IndexOfUnit(units, panchayat_id)
    IN  IF i = 0 \/ units[i].area_sq_km = 0 THEN 0
        ELSE (units[i].population * 10) \div units[i].area_sq_km

\* in tenths; p is None for an id that is not a key
population_density(units, panchayat_id) ==
    LET i == IndexOfUnit(units, panchayat_id)
    IN  IF i = 0 \/ units[i].area_sq_km = 0 THEN 0
        ELSE round1(units[i].population, units[i].area_sq_km)

\* search_by_district comparing the strings as they are
search_by_district_case_sensitive(units, district) ==
    LET Hit(p) == substring_in(district, p.district)
    IN  SelectSeq(units, Hit)

search_by_district(units, district) ==
    LET d == lower(district)
        Hit(p) == substring_in(d, lower(p.district))
    IN  SelectSeq(units, Hit)

search_by_state(units, state) ==
    LET st == lower(state)
        Hit(p) == substring_in(st, lower(p.state))
    IN  SelectSeq(units, Hit)

----------------------------------------------------------------------------
(* ServiceTracker                                                           *)

create(reqs, request) ==
    LET i == IndexOfRequest(reqs, request.request_id)
    IN  IF i = 0 THEN Append(reqs, request)
        ELSE [reqs EXCEPT ![i] = request]

\* an update_status that reports success whatever the id
update_status_always_true(reqs, request_id, status, resolved_date) ==
    LET i == IndexOfRequest(reqs, request_id)
    IN  IF i = 0 THEN [ret |-> TRUE, reqs |-> reqs]
        ELSE [ret |-> TRUE,
              reqs |-> [reqs EXCEPT ![i] =
                          [@ EXCEPT !.status = status,
                                    !.resolved_date =
                                        IF Truthy(resolved_date)
                                        THEN resolved_date ELSE @]]]

\* an update_status that also puts the priority back to its default
update_status_resets_priority(reqs, request_id, status, resolved_date) ==
    LET i == IndexOfRequest(reqs, request_id)
    IN  IF i = 0 THEN [ret |-> FALSE, reqs |-> reqs]
        ELSE [ret |-> TRUE,
              reqs |-> [reqs EXCEPT ![i] =
                          [@ EXCEPT !.status = status,
                                    !.priority = 3,
                                    !.resolved_date =
                                        IF Truthy(resolved_date)
                                        THEN resolved_date ELSE @]]]

\* an update_status that drops the date of a request set to "pending"
update_status_reopens_undated(reqs, request_id, status, resolved_date) ==
    LET i == IndexOfRequest(reqs, request_id)
    IN  IF i = 0 THEN [ret |-> FALSE, reqs |-> reqs]
        ELSE [ret |-> TRUE,
              reqs |-> [reqs EXCEPT ![i] =
                          [@ EXCEPT !.status = status,
                                    !.resolved_date =
                                        IF status = "pending" THEN None
                                        ELSE IF Truthy(resolved_date)
                                        THEN resolved_date ELSE @]]]

\* an update_status that stores the resolved_date argument as given
update_status_overwrites_date(reqs, request_id, status, resolved_date) ==
    LET i == IndexOfRequest(reqs, request_id)
    IN  IF i = 0 THEN [ret |-> FALSE, reqs |-> reqs]
        ELSE [ret |-> TRUE,
              reqs |-> [reqs EXCEPT ![i] =
                          [@ EXCEPT !.status = status,
                                    !.resolved_date = resolved_date]]]

\* the returned bool and the requests after the call
update_status(reqs, request_id, status, resolved_date) ==
    LET i == IndexOfRequest(reqs, request_id)
    IN  IF i = 0 THEN [ret |-> FALSE, reqs |-> reqs]
        ELSE [ret |-> TRUE,
              reqs |-> [reqs EXCEPT ![i] =
                          [@ EXCEPT !.status = status,
                                    !.resolved_date =
                                        IF Truthy(resolved_date)
                                        THEN resolved_date ELSE @]]]

\* an insert in front of the elements of equal priority
InsertByPriority_before_ties(sorted, r) ==
    LET n == Cardinality({i \in 1..Len(sorted) : sorted[i].priority < r.priority})
    IN  SubSeq(sorted, 1, n) \o <<r>> \o SubSeq(sorted, n + 1, Len(sorted))

\* list.insert of r behind every element whose priority is <= r's
InsertByPriority(sorted, r) ==
    LET n == Cardinality({i \in 1..Len(sorted) : sorted[i].priority <= r.priority})
    IN  SubSeq(sorted, 1, n) \o <<r>> \o SubSeq(sorted, n + 1, Len(sorted))

\* sorted(results, key=lambda r: r.priority): a stable sort
RECURSIVE sorted_by_priority(_)
sorted_by_priority(results) ==
    IF results = << >> THEN << >>
    ELSE InsertByPriority(sorted_by_priority(SubSeq(results, 1, Len(results) - 1)),
                          results[Len(results)])

\* a test that lets every unresolved status through
IsPendingStatus_not_resolved(r) == r.status # "resolved"

IsPendingStatus(r) == r.status = "pending"

get_pending(reqs, panchayat_id) ==
    LET results == SelectSeq(reqs, IsPendingStatus)
        OfUnit(r) == r.panchayat_id = panchayat_id[1]
        filtered == IF Truthy(panchayat_id) THEN SelectSeq(results, OfUnit)
                    ELSE results
    IN  sorted_by_priority(filtered)

\* the loop of category_stats over reqs[1..n]; a dict as a function
RECURSIVE category_stats_loop(_, _, _)
category_stats_loop(reqs, n, panchayat_id) ==
    IF n = 0 THEN << >>
    ELSE LET stats == category_stats_loop(reqs, n - 1, panchayat_id)
             r == reqs[n]
             cat == r.category
         IN  IF r.panchayat_id = panchayat_id
             THEN IF cat \in DOMAIN stats
                  THEN [stats EXCEPT ![cat] = @ + 1]
                  ELSE stats @@ (cat :> 1)
             ELSE stats

\* a count of the pending requests only
category_stats_pending_only(reqs, panchayat_id) ==
    LET pending == SelectSeq(reqs, IsPendingStatus)
    IN  category_stats_loop(pending, Len(pending), panchayat_id)

category_stats(reqs, panchayat_id) ==
    category_stats_loop(reqs, Len(reqs), panchayat_id)

\* a test that takes every status but "pending" for resolved
IsResolvedStatus_not_pending(r) == r.status # "pending"

IsResolvedStatus(r) == r.status = "resolved"

\* a rate whose numerator counts the resolved requests of every unit
resolution_rate_all_units(reqs, panchayat_id) ==
    LET total == Cardinality({i \in 1..Len(reqs) :
                                reqs[i].panchayat_id = panchayat_id})
        resolved == Cardinality({i \in 1..Len(reqs) : IsResolvedStatus(reqs[i])})
    IN  IF total > 0 THEN round1(resolved * 100, total) ELSE 0

\* in tenths of a percent
resolution_rate(reqs, panchayat_id) ==
    LET total == Cardinality({i \in 1..Len(reqs) :
                                reqs[i].panchayat_id = panchayat_id})
        resolved == Cardinality({i \in 1..Len(reqs) :
                                   /\ reqs[i].panchayat_id = panchayat_id
                                   /\ IsResolvedStatus(reqs[i])})
    IN  IF total > 0 THEN round1(resolved * 100, total) ELSE 0

----------------------------------------------------------------------------
(* BudgetAnalyzer                                                           *)

\* add that keeps one copy of equal records
add_unless_present(allocs, allocation) ==
    IF allocation \in Range(allocs) THEN allocs ELSE Append(allocs, allocation)

add(allocs, allocation) == Append(allocs, allocation)

\* the default threshold of under_utilized, 50.0, in tenths
UnderThreshold == 500

\* an under_utilized that takes a record at the threshold too
under_utilized_inclusive(allocs, panchayat_id, year, threshold) ==
    LET Under(a) == /\ a.panchayat_id = panchayat_id
                    /\ a.financial_year = year
                    /\ utilization_pct(a) <= threshold
    IN  SelectSeq(allocs, Under)

under_utilized(allocs, panchayat_id, year, threshold) ==
    LET Under(a) == /\ a.panchayat_id = panchayat_id
                    /\ a.financial_year = year
                    /\ utilization_pct(a) < threshold
    IN  SelectSeq(allocs, Under)

\* the default threshold of over_utilized, 90.0, in tenths
OverThreshold == 900

\* an over_utilized that takes a record at the threshold too
over_utilized_inclusive(allocs, panchayat_id, year, threshold) ==
    LET Over(a) == /\ a.panchayat_id = panchayat_id
                   /\ a.financial_year = year
                   /\ utilization_pct(a) >= threshold
    IN  SelectSeq(allocs, Over)

over_utilized(allocs, panchayat_id, year, threshold) ==
    LET Over(a) == /\ a.panchayat_id = panchayat_id
                   /\ a.financial_year = year
                   /\ utilization_pct(a) > threshold
    IN  SelectSeq(allocs, Over)

\* the loop of utilization_by_scheme over allocs[1..n]; a dict as a function
RECURSIVE utilization_by_scheme_loop(_, _, _, _)
utilization_by_scheme_loop(allocs, n, panchayat_id, year) ==
    IF n = 0 THEN << >>
    ELSE LET result == utilization_by_scheme_loop(allocs, n - 1, panchayat_id, year)
             a == allocs[n]
         IN  IF a.panchayat_id = panchayat_id /\ a.financial_year = year
             THEN IF a.scheme_name \in DOMAIN result
                  THEN [result EXCEPT ![a.scheme_name] = utilization_pct(a)]
                  ELSE result @@ (a.scheme_name :> utilization_pct(a))
             ELSE result

\* a loop that keeps the first percentage it stored for a scheme
RECURSIVE utilization_by_scheme_first_wins(_, _, _)
utilization_by_scheme_first_wins(allocs, panchayat_id, year) ==
    IF allocs = << >> THEN << >>
    ELSE LET a == allocs[Len(allocs)]
             result == utilization_by_scheme_first_wins(
                           SubSeq(allocs, 1, Len(allocs) - 1), panchayat_id, year)
         IN  IF /\ a.panchayat_id = panchayat_id
                /\ a.financial_year = year
                /\ a.scheme_name \notin DOMAIN result
             THEN result @@ (a.scheme_name :> utilization_pct(a))
             ELSE result

utilization_by_scheme(allocs, panchayat_id, year) ==
    utilization_by_scheme_loop(allocs, Len(allocs), panchayat_id, year)

\* sum(a.allocated_amount for a in matching)
RECURSIVE sum_allocated(_)
sum_allocated(matching) ==
    IF matching = << >> THEN 0
    ELSE sum_allocated(Tail(matching)) + Head(matching).allocated_amount

\* sum(a.utilized_amount for a in matching)
RECURSIVE sum_utilized(_)
sum_utilized(matching) ==
    IF matching = << >> THEN 0
    ELSE sum_utilized(Tail(matching)) + Head(matching).utilized_amount

total_allocation(allocs, panchayat_id, year) ==
    LET Match(a) == a.panchayat_id = panchayat_id /\ a.financial_year = year
    IN  sum_allocated(SelectSeq(allocs, Match))

\* a total over the unit's records of every year
total_utilized_any_year(allocs, panchayat_id, year) ==
    LET Match(a) == a.panchayat_id = panchayat_id
    IN  sum_utilized(SelectSeq(allocs, Match))

total_utilized(allocs, panchayat_id, year) ==
    LET Match(a) == a.panchayat_id = panchayat_id /\ a.financial_year = year
    IN  sum_utilized(SelectSeq(allocs, Match))

\* format(x, ".0f") of a value held in tenths: the nearest integer, half to even
format_0f(tenths) == RoundHalfEven(tenths, 10)

\* one recommendation line: the three values the f-string prints
recommendation(a) ==
    [unused |-> a.allocated_amount - a.utilized_amount,
     scheme_name |-> a.scheme_name,
     pct |-> format_0f(utilization_pct(a))]

recommend_reallocation(allocs, panchayat_id, year) ==
    LET under == under_utilized(allocs, panchayat_id, year, UnderThreshold)
    IN  [i \in 1..Len(under) |-> recommendation(under[i])]

----------------------------------------------------------------------------
(* MeetingManager                                                           *)

record(mtgs, meeting) == Append(mtgs, meeting)

get_meetings(mtgs, panchayat_id) ==
    LET OfUnit(m) == m.panchayat_id = panchayat_id
    IN  SelectSeq(mtgs, OfUnit)

\* the loop of all_action_items without its test of the unit
RECURSIVE all_action_items_any_unit(_, _)
all_action_items_any_unit(mtgs, panchayat_id) ==
    IF mtgs = << >> THEN << >>
    ELSE all_action_items_any_unit(SubSeq(mtgs, 1, Len(mtgs) - 1), panchayat_id)
            \o mtgs[Len(mtgs)].action_items

\* items.extend(m.action_items) for each meeting of the unit, in list order
RECURSIVE all_action_items(_, _)
all_action_items(mtgs, panchayat_id) ==
    IF mtgs = << >> THEN << >>
    ELSE LET items == all_action_items(SubSeq(mtgs, 1, Len(mtgs) - 1), panchayat_id)
             m == mtgs[Len(mtgs)]
         IN  IF m.panchayat_id = panchayat_id
             THEN items \o m.action_items
             ELSE items

\* sum(1 for m in ... if ...)
meeting_count(mtgs, panchayat_id) ==
    Cardinality({i \in 1..Len(mtgs) : mtgs[i].panchayat_id = panchayat_id})

----------------------------------------------------------------------------
(* SchemeMapper                                                             *)

\* _SCHEMES: name and description as sequences of characters
SCHEMES ==
    <<
      [name |->
         <<"M", "G", "N", "R", "E", "G", "A">>,
       ministry |-> "Ministry of Rural Development",
       description |->
         <<"1", "0", "0", " ", "d", "a", "y", "s", " ", "g", "u", "a", "r", "a",
           "n", "t", "e", "e", "d", " ", "w", "a", "g", "e", " ", "e",
           "m", "p", "l", "o", "y", "m", "e", "n", "t", " ", "p", "e",
           "r", " ", "r", "u", "r", "a", "l", " ", "h", "o", "u", "s",
           "e", "h", "o", "l", "d", " ", "p", "e", "r", " ", "y", "e",
           "a", "r", ".">>,
       allocation_type |-> "demand-driven",
       eligible_panchayats |-> "all_rural"],
      [name |->
         <<"P", "M", "A", "Y", "-", "G", "r", "a", "m", "i", "n">>,
       ministry |-> "Ministry of Rural Development",
       description |->
         <<"P", "u", "c", "c", "a", " ", "h", "o", "u", "s", "e", " ", "w", "i",
           "t", "h", " ", "b", "a", "s", "i", "c", " ", "a", "m", "e",
           "n", "i", "t", "i", "e", "s", ".", " ", "R", "s", " ", "1",
           ".", "2", "0", " ", "l", "a", "k", "h", " ", "(", "p", "l",
           "a", "i", "n", "s", ")", ",", " ", "R", "s", " ", "1", ".",
           "3", "0", " ", "l", "a", "k", "h", " ", "(", "h", "i", "l",
           "l", "y", ")", ".">>,
       allocation_type |-> "unit-based",
       eligible_panchayats |-> "houseless_kutcha"],
      [name |->
         <<"S", "w", "a", "c", "h", "h", " ", "B", "h", "a", "r", "a", "t", " ",
           "M", "i", "s", "s", "i", "o", "n", " ", "(", "G", "r", "a",
           "m", "i", "n", ")">>,
       ministry |-> "Ministry of Jal Shakti",
       description |->
         <<"O", "D", "F", " ", "v", "i", "l", "l", "a", "g", "e", "s", ".", " ",
           "I", "n", "d", "i", "v", "i", "d", "u", "a", "l", " ", "h",
           "o", "u", "s", "e", "h", "o", "l", "d", " ", "t", "o", "i",
           "l", "e", "t", "s", " ", "a", "n", "d", " ", "c", "o", "m",
           "m", "u", "n", "i", "t", "y", " ", "s", "a", "n", "i", "t",
           "a", "r", "y", " ", "c", "o", "m", "p", "l", "e", "x", "e",
           "s", ".">>,
       allocation_type |-> "unit-based",
       eligible_panchayats |-> "all_rural"],
      [name |->
         <<"P", "M", "G", "S", "Y">>,
       ministry |-> "Ministry of Rural Development",
       description |->
         <<"A", "l", "l", "-", "w", "e", "a", "t", "h", "e", "r", " ", "r", "o",
           "a", "d", " ", "c", "o", "n", "n", "e", "c", "t", "i", "v",
           "i", "t", "y", " ", "t", "o", " ", "u", "n", "c", "o", "n",
           "n", "e", "c", "t", "e", "d", " ", "h", "a", "b", "i", "t",
           "a", "t", "i", "o", "n", "s", " ", "(", "5", "0", "0", "+",
           " ", "p", "o", "p", "u", "l", "a", "t", "i", "o", "n", ",",
           " ", "2", "5", "0", "+", " ", "i", "n", " ", "h", "i", "l",
           "l", "y", ")", ".">>,
       allocation_type |-> "project-based",
       eligible_panchayats |-> "unconnected_habitations"],
      [name |->
         <<"N", "a", "t", "i", "o", "n", "a", "l", " ", "H", "e", "a", "l", "t",
           "h", " ", "M", "i", "s", "s", "i", "o", "n">>,
       ministry |-> "Ministry of Health",
       description |->
         <<"H", "e", "a", "l", "t", "h", " ", "S", "u", "b", "-", "C", "e", "n",
           "t", "r", "e", "s", ",", " ", "P", "H", "C", "s", ".", " ",
           "F", "r", "e", "e", " ", "m", "e", "d", "i", "c", "i", "n",
           "e", "s", ",", " ", "d", "i", "a", "g", "n", "o", "s", "t",
           "i", "c", "s", ".", " ", "A", "S", "H", "A", " ", "w", "o",
           "r", "k", "e", "r", "s", ".">>,
       allocation_type |-> "population-based",
       eligible_panchayats |-> "all"],
      [name |->
         <<"S", "a", "m", "a", "g", "r", "a", " ", "S", "h", "i", "k", "s", "h",
           "a">>,
       ministry |-> "Ministry of Education",
       description |->
         <<"H", "o", "l", "i", "s", "t", "i", "c", " ", "e", "d", "u", "c", "a",
           "t", "i", "o", "n", " ", "f", "r", "o", "m", " ", "p", "r",
           "e", "-", "s", "c", "h", "o", "o", "l", " ", "t", "o", " ",
           "C", "l", "a", "s", "s", " ", "X", "I", "I", ".", " ", "S",
           "c", "h", "o", "o", "l", " ", "i", "n", "f", "r", "a", "s",
           "t", "r", "u", "c", "t", "u", "r", "e", " ", "a", "n", "d",
           " ", "t", "e", "a", "c", "h", "e", "r", " ", "t", "r", "a",
           "i", "n", "i", "n", "g", ".">>,
       allocation_type |-> "population-based",
       eligible_panchayats |-> "all"],
      [name |->
         <<"N", "a", "t", "i", "o", "n", "a", "l", " ", "R", "u", "r", "a", "l",
           " ", "L", "i", "v", "e", "l", "i", "h", "o", "o", "d", " ",
           "M", "i", "s", "s", "i", "o", "n">>,
       ministry |-> "Ministry of Rural Development",
       description |->
         <<"S", "H", "G", " ", "f", "o", "r", "m", "a", "t", "i", "o", "n", ",",
           " ", "s", "k", "i", "l", "l", " ", "d", "e", "v", "e", "l",
           "o", "p", "m", "e", "n", "t", ",", " ", "m", "i", "c", "r",
           "o", "-", "c", "r", "e", "d", "i", "t", ".", " ", "T", "a",
           "r", "g", "e", "t", "s", " ", "p", "o", "o", "r", "e", "s",
           "t", " ", "o", "f", " ", "p", "o", "o", "r", ".">>,
       allocation_type |-> "demand-driven",
       eligible_panchayats |-> "all_rural"],
      [name |->
         <<"D", "D", "U", "-", "G", "K", "Y">>,
       ministry |-> "Ministry of Rural Development",
       description |->
         <<"S", "k", "i", "l", "l", " ", "d", "e", "v", "e", "l", "o", "p", "m",
           "e", "n", "t", " ", "a", "n", "d", " ", "p", "l", "a", "c",
           "e", "m", "e", "n", "t", " ", "f", "o", "r", " ", "r", "u",
           "r", "a", "l", " ", "y", "o", "u", "t", "h", " ", "a", "g",
           "e", "d", " ", "1", "5", "-", "3", "5", ".">>,
       allocation_type |-> "demand-driven",
       eligible_panchayats |-> "all_rural"],
      [name |->
         <<"J", "a", "l", " ", "J", "e", "e", "v", "a", "n", " ", "M", "i", "s",
           "s", "i", "o", "n">>,
       ministry |-> "Ministry of Jal Shakti",
       description |->
         <<"F", "u", "n", "c", "t", "i", "o", "n", "a", "l", " ", "h", "o", "u",
           "s", "e", "h", "o", "l", "d", " ", "t", "a", "p", " ", "c",
           "o", "n", "n", "e", "c", "t", "i", "o", "n", " ", "(", "F",
           "H", "T", "C", ")", " ", "t", "o", " ", "e", "v", "e", "r",
           "y", " ", "r", "u", "r", "a", "l", " ", "h", "o", "u", "s",
           "e", "h", "o", "l", "d", " ", "b", "y", " ", "2", "0", "2",
           "4", ".">>,
       allocation_type |-> "unit-based",
       eligible_panchayats |-> "all_rural"],
      [name |->
         <<"P", "M", "-", "K", "I", "S", "A", "N">>,
       ministry |-> "Ministry of Agriculture",
       description |->
         <<"R", "s", " ", "6", ",", "0", "0", "0", "/", "y", "e", "a", "r", " ",
           "i", "n", "c", "o", "m", "e", " ", "s", "u", "p", "p", "o",
           "r", "t", " ", "t", "o", " ", "f", "a", "r", "m", "e", "r",
           " ", "f", "a", "m", "i", "l", "i", "e", "s", " ", "i", "n",
           " ", "3", " ", "i", "n", "s", "t", "a", "l", "l", "m", "e",
           "n", "t", "s", ".">>,
       allocation_type |-> "dbt",
       eligible_panchayats |-> "farming_households"],
      [name |->
         <<"R", "K", "V", "Y", "-", "R", "A", "F", "T", "A", "A", "R">>,
       ministry |-> "Ministry of Agriculture",
       description |->
         <<"I", "n", "f", "r", "a", "s", "t", "r", "u", "c", "t", "u", "r", "e",
           " ", "f", "o", "r", " ", "a", "g", "r", "i", "c", "u", "l",
           "t", "u", "r", "e", " ", "a", "n", "d", " ", "a", "l", "l",
           "i", "e", "d", " ", "s", "e", "c", "t", "o", "r", "s", ".",
           " ", "A", "g", "r", "i", "-", "b", "u", "s", "i", "n", "e",
           "s", "s", " ", "p", "r", "o", "m", "o", "t", "i", "o", "n", ".">>,
       allocation_type |-> "project-based",
       eligible_panchayats |-> "all_rural"],
      [name |->
         <<"I", "C", "D", "S", "/", "P", "o", "s", "h", "a", "n", " ", "A", "b",
           "h", "i", "y", "a", "a", "n">>,
       ministry |-> "Ministry of Women & Child",
       description |->
         <<"S", "u", "p", "p", "l", "e", "m", "e", "n", "t", "a", "r", "y", " ",
           "n", "u", "t", "r", "i", "t", "i", "o", "n", ",", " ", "i",
           "m", "m", "u", "n", "i", "z", "a", "t", "i", "o", "n", ",",
           " ", "h", "e", "a", "l", "t", "h", " ", "c", "h", "e", "c",
           "k", "u", "p", " ", "f", "o", "r", " ", "c", "h", "i", "l",
           "d", "r", "e", "n", " ", "0", "-", "6", " ", "a", "n", "d",
           " ", "p", "r", "e", "g", "n", "a", "n", "t", " ", "w", "o",
           "m", "e", "n", ".">>,
       allocation_type |-> "anganwadi-based",
       eligible_panchayats |-> "all"],
      [name |->
         <<"M", "i", "d", "-", "D", "a", "y", " ", "M", "e", "a", "l", " ", "(",
           "P", "M", "-", "P", "O", "S", "H", "A", "N", ")">>,
       ministry |-> "Ministry of Education",
       description |->
         <<"H", "o", "t", " ", "c", "o", "o", "k", "e", "d", " ", "l", "u", "n",
           "c", "h", " ", "f", "o", "r", " ", "g", "o", "v", "e", "r",
           "n", "m", "e", "n", "t", " ", "s", "c", "h", "o", "o", "l",
           " ", "c", "h", "i", "l", "d", "r", "e", "n", " ", "C", "l",
           "a", "s", "s", " ", "I", "-", "V", "I", "I", "I", ".">>,
       allocation_type |-> "per-child",
       eligible_panchayats |-> "all"],
      [name |->
         <<"N", "S", "A", "P", " ", "(", "N", "a", "t", "i", "o", "n", "a", "l",
           " ", "S", "o", "c", "i", "a", "l", " ", "A", "s", "s", "i",
           "s", "t", "a", "n", "c", "e", ")">>,
       ministry |-> "Ministry of Rural Development",
       description |->
         <<"P", "e", "n", "s", "i", "o", "n", " ", "f", "o", "r", " ", "e", "l",
           "d", "e", "r", "l", "y", " ", "(", "I", "G", "N", "O", "A",
           "P", "S", ")", ",", " ", "w", "i", "d", "o", "w", "s", " ",
           "(", "I", "G", "N", "W", "P", "S", ")", ",", " ", "d", "i",
           "s", "a", "b", "l", "e", "d", " ", "(", "I", "G", "N", "D",
           "P", "S", ")", ".">>,
       allocation_type |-> "dbt",
       eligible_panchayats |-> "all_bpl"],
      [name |->
         <<"A", "M", "R", "U", "T", " ", "2", ".", "0">>,
       ministry |-> "Ministry of Housing",
       description |->
         <<"W", "a", "t", "e", "r", " ", "s", "u", "p", "p", "l", "y", ",", " ",
           "s", "e", "w", "e", "r", "a", "g", "e", ",", " ", "d", "r",
           "a", "i", "n", "a", "g", "e", " ", "f", "o", "r", " ", "u",
           "r", "b", "a", "n", " ", "a", "r", "e", "a", "s", " ", "a",
           "n", "d", " ", "c", "e", "n", "s", "u", "s", " ", "t", "o",
           "w", "n", "s", ".">>,
       allocation_type |-> "project-based",
       eligible_panchayats |-> "census_towns"]
    >>

\* the module-level list _SCHEMES: references to the fifteen objects
ModuleSchemes == [i \in 1..Len(SCHEMES) |-> i]

\* __init__: list(_SCHEMES) copies the list, not the objects
new_SchemeMapper == ModuleSchemes

\* the SchemeInfo objects, by reference 1..15: the objects as _SCHEMES
\* built them, with the fields assigned since
ObjectsWith(asg) ==
    [ref \in DOMAIN SCHEMES |->
        [f \in DOMAIN SCHEMES[ref] |->
            IF <<ref, f>> \in DOMAIN asg THEN asg[<<ref, f>>] ELSE SCHEMES[ref][f]]]

schemeObjs == ObjectsWith(assigned)

\* object.field = value
SetField(asg, ref, field, value) ==
    [rf \in DOMAIN asg \cup {<<ref, field>>} |->
        IF rf = <<ref, field>> THEN value ELSE asg[rf]]

\* the records a list of references leads to
Deref(list, objs) == [i \in 1..Len(list) |-> objs[list[i]]]

\* the chain with the habitation branch turned round
eligible_small_habitations(ep, panchayat) ==
    \/ ep \in {"all", "all_rural", "all_bpl"}
    \/ ep = "farming_households"
    \/ ep = "census_towns" /\ panchayat.population > 5000
    \/ ep = "unconnected_habitations" /\ panchayat.population < 250
    \/ ep = "houseless_kutcha"

\* the if / elif chain of find_eligible, with the census-town branch at >=
eligible_census_from_5000(ep, panchayat) ==
    \/ ep \in {"all", "all_rural", "all_bpl"}
    \/ ep = "farming_households"
    \/ ep = "census_towns" /\ panchayat.population >= 5000
    \/ ep = "unconnected_habitations" /\ panchayat.population >= 250
    \/ ep = "houseless_kutcha"

\* the chain with a final else branch that appends
eligible_unless_excluded(ep, panchayat) ==
    /\ ep = "census_towns" => panchayat.population > 5000
    /\ ep = "unconnected_habitations" => panchayat.population >= 250

\* the if / elif chain of find_eligible for one scheme's eligible_panchayats
eligible(ep, panchayat) ==
    \/ ep \in {"all", "all_rural", "all_bpl"}
    \/ ep = "farming_households"
    \/ ep = "census_towns" /\ panchayat.population > 5000
    \/ ep = "unconnected_habitations" /\ panchayat.population >= 250
    \/ ep = "houseless_kutcha"

\* panchayat is None or Some(unit); the result is a new list
find_eligible(list, objs, panchayat) ==
    IF panchayat = None THEN list
    ELSE LET Eligible(ref) == eligible(objs[ref].eligible_panchayats, panchayat[1])
         IN  SelectSeq(list, Eligible)

search(list, objs, query) ==
    LET q == lower(query)
        Hit(ref) == \/ substring_in(q, lower(objs[ref].name))
                    \/ substring_in(q, lower(objs[ref].description))
    IN  SelectSeq(list, Hit)

all_schemes_reversed(list) == [i \in 1..Len(list) |-> list[Len(list) + 1 - i]]

\* list(self._schemes)
all_schemes(list) == list

----------------------------------------------------------------------------
(* Inputs                                                                   *)

PanchayatIds == {"GP001", "GP002", "GP003"}

Pune == <<"P", "u", "n", "e">>
Jodhpur == <<"J", "o", "d", "h", "p", "u", "r">>
Maharashtra == <<"M", "a", "h", "a", "r", "a", "s", "h", "t", "r", "a">>
Rajasthan == <<"R", "a", "j", "a", "s", "t", "h", "a", "n">>

\* what a caller may try to build; GramPanchayat keeps the valid ones
UnitCandidates ==
    {[panchayat_id |-> id,
      name |-> nm,
      block |-> "B1",
      district |-> ds[1],
      state |-> ds[2],
      population |-> pop,
      households |-> 300,
      area_sq_km |-> 8] :
        id \in PanchayatIds, nm \in {"Rampur", "Shyampur"},
        ds \in {<<Pune, Maharashtra>>, <<Jodhpur, Rajasthan>>},
        pop \in {0, 1200, 6000}}

UnitInputs == {p \in UnitCandidates : GramPanchayat(p)}

\* the units and requests of the specification that holds a registry and a
\* tracker: valid ones, and ones with a field outside its constraint
EntityUnitCandidates ==
    {[panchayat_id |-> id,
      name |-> "Rampur",
      block |-> "B1",
      district |-> Pune,
      state |-> Maharashtra,
      population |-> f[1],
      households |-> f[2],
      area_sq_km |-> f[3]] :
        id \in {"GP001", "GP002"},
        f \in {<<1200, 300, 8>>, <<6000, 900, 8>>, <<0, 300, 8>>,
               <<1200, 0, 8>>, <<1200, 300, 0>>, <<-5, 300, 8>>}}

EntityUnitInputs == {p \in EntityUnitCandidates : GramPanchayat(p)}

EntityRequestCandidates ==
    {[request_id |-> id,
      panchayat_id |-> "GP001",
      category |-> "water",
      description |-> "Handpump broken",
      submitted_date |-> "2025-01-10",
      status |-> "pending",
      priority |-> pr,
      resolved_date |-> None] :
        id \in {"REQ1", "REQ2"}, pr \in {0, 1, 3, 5, 6}}

EntityRequestInputs == {r \in EntityRequestCandidates : ServiceRequest(r)}

\* what a caller may try to build; MeetingRecord keeps the valid ones
MeetingCandidates ==
    {[panchayat_id |-> unit,
      date |-> "2025-01-26",
      attendees_count |-> n,
      agenda_items |-> <<"Budget">>,
      decisions |-> << >>,
      action_items |-> items] :
        unit \in {"GP001", "GP002"}, n \in {-1, 0, 45},
        items \in {<< >>, <<"Repair handpump">>,
                   <<"Survey roads", "Repair handpump">>}}

MeetingInputs == {m \in MeetingCandidates : MeetingRecord(m)}

\* the units of the density specification.  Populations and areas give an
\* exact quotient (1200 / 8), one rounded down (1200 / 7), one rounded up
\* (1201 / 7) and a tie (1202 / 8 = 150.25).
DensityUnitCandidates ==
    {[panchayat_id |-> id,
      name |-> "Rampur",
      block |-> "B1",
      district |-> Pune,
      state |-> Maharashtra,
      population |-> pa[1],
      households |-> 300,
      area_sq_km |-> pa[2]] :
        id \in {"GP001", "GP002"},
        pa \in {<<1200, 8>>, <<1200, 7>>, <<1201, 7>>, <<1202, 8>>,
                <<1200, 0>>, <<0, 8>>}}

DensityUnitInputs == {p \in DensityUnitCandidates : GramPanchayat(p)}

\* units built without validation (GramPanchayat.model_construct): the only
\* way a unit without area comes to exist
UnvalidatedUnitInputs ==
    {p \in DensityUnitCandidates : p.area_sq_km = 0 /\ p.population > 0}

\* the units of the search specification: an id and a district with its state
SearchUnitInputs ==
    {p \in UnitInputs : p.name = "Rampur" /\ p.population = 1200}

\* the arguments of search_by_district and search_by_state
DistrictQueries ==
    {<<"p", "u", "n", "e">>, <<"P", "U", "N", "E">>, <<"p", "u">>, <<"x", "y", "z">>, << >>}

StateQueries ==
    {<<"r", "a", "j">>, <<"M", "A", "H", "A">>, <<"a">>, <<"x", "y", "z">>}

RequestIds == {"REQ1", "REQ2", "REQ3"}

RequestUnits == {"GP001", "GP002"}

Statuses == {"pending", "resolved", "in_progress"}

\* the unit / category / priority combinations callers submit: a tie in
\* priority inside a unit, two priorities, two categories, a second unit,
\* and priorities outside 1..5
RequestShapes ==
    {<<"GP001", "water", 3>>, <<"GP001", "roads", 1>>,
     <<"GP001", "water", 1>>, <<"GP002", "water", 3>>,
     <<"GP001", "water", 0>>, <<"GP002", "roads", 6>>}

\* what a caller may try to build; ServiceRequest keeps the valid ones
RequestCandidates ==
    {[request_id |-> id,
      panchayat_id |-> sh[1],
      category |-> sh[2],
      description |-> "Handpump broken",
      submitted_date |-> "2025-01-10",
      status |-> st,
      priority |-> sh[3],
      resolved_date |-> None] :
        id \in RequestIds, sh \in RequestShapes, st \in {"pending", "resolved"}}

RequestInputs == {r \in RequestCandidates : ServiceRequest(r)}

\* the requests of the history specification: created pending
RequestInputsHist ==
    {r \in RequestInputs : r.status = "pending" /\ r.priority = 3}

\* allocated / utilized amounts: 49.0, 50.0, 90.0 and 91.0 percent, nothing
\* allocated, 49.97 percent (50.0 once rounded), 33.33 percent, 6.25 percent
\* (a tie between 6.2 and 6.3), and a negative amount
AmountPairs == {<<100, 49>>, <<100, 50>>, <<100, 90>>, <<100, 91>>, <<0, 50>>,
                <<3000, 1499>>, <<300, 100>>, <<16, 1>>, <<100, -1>>}

BudgetUnitYears == {<<"GP001", "2024-25">>, <<"GP002", "2024-25">>,
                    <<"GP001", "2023-24">>}

\* what a caller may try to build; BudgetAllocation keeps the valid ones
AllocationCandidates ==
    {[panchayat_id |-> "GP001", financial_year |-> "2024-25",
      scheme_name |-> sc, allocated_amount |-> am[1], utilized_amount |-> am[2]] :
        sc \in {"MGNREGA", "PMAY-Gramin"}, am \in AmountPairs}
    \cup
    {[panchayat_id |-> uy[1], financial_year |-> uy[2],
      scheme_name |-> "MGNREGA", allocated_amount |-> 100, utilized_amount |-> 49] :
        uy \in BudgetUnitYears}

AllocationInputs == {a \in AllocationCandidates : BudgetAllocation(a)}

\* the four records of one unit and year of the budget scenario, and a
\* record of another year and of another unit
ScenarioRecords ==
    {[panchayat_id |-> "GP001", financial_year |-> "2024-25",
      scheme_name |-> sc[1], allocated_amount |-> sc[2], utilized_amount |-> sc[3]] :
        sc \in {<<"MGNREGA", 500000, 320000>>,
                <<"Jal Jeevan Mission", 800000, 760000>>,
                <<"PMAY-Gramin", 300000, 90000>>,
                <<"Swachh Bharat", 150000, 148000>>}}

ScenarioCandidates ==
    ScenarioRecords
    \cup
    {[panchayat_id |-> uy[1], financial_year |-> uy[2],
      scheme_name |-> "MGNREGA", allocated_amount |-> 100, utilized_amount |-> 49] :
        uy \in {<<"GP002", "2024-25">>, <<"GP001", "2023-24">>}}

ScenarioInputs == {a \in ScenarioCandidates : BudgetAllocation(a)}

\* the allocations and meetings of the specification that counts the calls
CountedAllocationInputs ==
    {a \in AllocationInputs : /\ a.scheme_name = "MGNREGA"
                              /\ a.panchayat_id = "GP001"
                              /\ a.financial_year = "2024-25"
                              /\ a.utilized_amount \in {49, 90}}

CountedMeetingInputs ==
    {m \in MeetingInputs : /\ m.panchayat_id = "GP001"
                           /\ m.attendees_count = 45
                           /\ Len(m.action_items) <= 1}

\* the resolved_date argument: omitted, empty, or a date
DateArgs == {None, Some(""), Some("2025-02-01")}

\* the panchayat_id argument of get_pending
FilterArgs == {None, Some(""), Some("GP001"), Some("GP002"), Some("GP999")}

\* the requests and updates of the specification with two trackers
SharedRequestInputs ==
    {r \in RequestInputs : /\ r.request_id \in {"REQ1", "REQ2"}
                           /\ r.panchayat_id = "GP001"
                           /\ r.category = "water"
                           /\ r.priority = 3
                           /\ r.status = "pending"}

SharedStatuses == {"pending", "resolved"}

SharedDateArgs == {None, Some("2025-02-01")}

\* The specification in which queries are calls.  A query is a pair
\* <<operation, argument>>; the argument is a unit id, a search text, or
\* Omitted where the operation takes none or its argument is left out.
NoQuery == <<"", "">>

Omitted == "-"

QueryYear == "2024-25"

\* the search texts, by the name the query carries
TextOf == ("pu" :> <<"p", "u">>) @@ ("RURAL" :> <<"R", "U", "R", "A", "L">>)

QueryUnitInputs ==
    {p \in SearchUnitInputs :
        <<p.panchayat_id, p.district>> \in {<<"GP001", Pune>>, <<"GP002", Jodhpur>>}}

QueryRequestInputs ==
    {r \in EntityRequestInputs :
        <<r.request_id, r.priority>> \in {<<"REQ1", 3>>, <<"REQ2", 1>>}}

QueryAllocationInputs == {a \in CountedAllocationInputs : a.utilized_amount = 49}

QueryMeetingInputs == {m \in CountedMeetingInputs : Len(m.action_items) = 1}

Queries ==
    ({"get", "population_density", "get_pending", "category_stats",
      "resolution_rate", "utilization_by_scheme", "under_utilized",
      "over_utilized", "total_allocation", "total_utilized",
      "recommend_reallocation", "get_meetings", "all_action_items",
      "meeting_count", "find_eligible"} \X {"GP001"})
    \cup ({"search_by_district", "search_by_state"} \X {"pu"})
    \cup ({"search"} \X {"RURAL"})
    \cup ({"all_panchayats", "all_schemes", "get_pending", "find_eligible"}
            \X {Omitted})

\* populations around the two thresholds of find_eligible, and 0
CatalogPopulations ==
    {0, 1, 200, 249, 250, 251, 500, 1200, 4999, 5000, 5001, 6000, 100000}

CatalogUnitCandidates ==
    {[panchayat_id |-> id,
      name |-> nm,
      block |-> "B1",
      district |-> ds[1],
      state |-> ds[2],
      population |-> pop,
      households |-> 300,
      area_sq_km |-> 8] :
        id \in {"GP001", "GP002"}, nm \in {"Rampur", "Shyampur"},
        ds \in {<<Pune, Maharashtra>>, <<Jodhpur, Rajasthan>>},
        pop \in CatalogPopulations}

CatalogUnits == {p \in CatalogUnitCandidates : GramPanchayat(p)}

\* the panchayat argument of find_eligible: omitted, or a unit
PanchayatArgs == {None} \cup {Some(p) : p \in CatalogUnits}

\* the query argument of search
SearchQueries ==
    {<<"r", "o", "a", "d">>,
     <<"p", "m">>,
     <<"w", "a", "t", "e", "r">>,
     <<"x", "y", "z">>,
     <<"r", "u", "r", "a", "l">>,
     <<"K", "I", "S", "A", "N">>,
     <<"c", "e", "n", "s", "u", "s">>,
     << >>}

\* the arguments of the specification in which the caller edits what it got
CallerPanchayatArgs ==
    {None} \cup {Some(p) : p \in {u \in CatalogUnits :
                                      /\ u.panchayat_id = "GP001"
                                      /\ u.name = "Rampur"
                                      /\ u.district = Pune
                                      /\ u.population \in {200, 1200, 6000}}}

CallerQueries == {<<"r", "o", "a", "d">>, <<"K", "I", "S", "A", "N">>}

\* the assignments a caller makes to a field of a record it was given
FieldEdits == {<<"eligible_panchayats", "tribal_blocks">>, <<"name", <<"X">>>>}

----------------------------------------------------------------------------
(* The state machine                                                        *)

Init ==
    /\ panchayats = << >>
    /\ lastRegistered = [id \in PanchayatIds |-> None]
    /\ replaced = {}
    /\ regLog = << >>
    /\ requests = << >>
    /\ changedAway = {}
    /\ allocations = << >>
    /\ meetings = << >>
    /\ calls = [add |-> 0, record |-> 0]
    /\ lastQuery = NoQuery
    /\ answered = << >>
    /\ repeated = FALSE
    /\ assigned = << >>
    /\ schemes = new_SchemeMapper
    /\ returned = << >>
    /\ lastCall = [op |-> "SchemeMapper", panchayat |-> None, query |-> << >>]
    /\ requests2 = << >>
    /\ shared = {}
    /\ actor = 0

RegisterStep(p) ==
    /\ panchayats' = register(panchayats, p)
    /\ lastRegistered' = [lastRegistered EXCEPT ![p.panchayat_id] = Some(p)]
    /\ replaced' = IF lastRegistered[p.panchayat_id] \notin {None, Some(p)}
                   THEN replaced \cup {p.panchayat_id}
                   ELSE replaced
    /\ UNCHANGED <<trackerVars, budgetVars, catalogVars, secondTrackerVars, meetingVars, callVars, queryVars>>

Register(p) ==
    /\ Len(register(panchayats, p)) <= MaxUnits
    /\ RegisterStep(p)
    /\ UNCHANGED regLog

\* register, given a unit that was built without validation
RegisterUnvalidated(p) ==
    /\ Len(register(panchayats, p)) <= MaxUnits
    /\ RegisterStep(p)
    /\ UNCHANGED regLog

\* the same call, recording the order of the calls
RegisterLogged(p) ==
    /\ Len(regLog) < MaxRegisterCalls
    /\ RegisterStep(p)
    /\ regLog' = Append(regLog, p.panchayat_id)

Add(a) ==
    /\ Len(allocations) < MaxAllocations
    /\ allocations' = add(allocations, a)
    /\ UNCHANGED <<registryVars, trackerVars, catalogVars, secondTrackerVars, meetingVars, callVars, queryVars>>

\* add, up to the length the budget scenario needs
AddScenario(a) ==
    /\ Len(allocations) < MaxScenarioAllocations
    /\ allocations' = add(allocations, a)
    /\ UNCHANGED <<registryVars, trackerVars, catalogVars, secondTrackerVars, meetingVars, callVars, queryVars>>

CreateStep(r) ==
    /\ Len(create(requests, r)) <= MaxRequests
    /\ requests' = create(requests, r)
    /\ UNCHANGED <<registryVars, budgetVars, catalogVars, secondTrackerVars, meetingVars, callVars, queryVars>>

UpdateStatusStep(id, status, date) ==
    /\ requests' = update_status(requests, id, status, date).reqs
    /\ UNCHANGED <<registryVars, budgetVars, catalogVars, secondTrackerVars, meetingVars, callVars, queryVars>>

Create(r) == CreateStep(r) /\ UNCHANGED changedAway

UpdateStatus(id, status, date) ==
    UpdateStatusStep(id, status, date) /\ UNCHANGED changedAway

\* the same calls, recording which stored requests update_status has moved
\* off "pending"; create stores a new request under the id
CreateHist(r) ==
    /\ CreateStep(r)
    /\ changedAway' = changedAway \ {r.request_id}

UpdateStatusHist(id, status, date) ==
    /\ UpdateStatusStep(id, status, date)
    /\ changedAway' =
          IF /\ IndexOfRequest(requests, id) # 0
             /\ requests[IndexOfRequest(requests, id)].status = "pending"
             /\ status # "pending"
          THEN changedAway \cup {id}
          ELSE changedAway

Record(m) ==
    /\ Len(meetings) < MaxMeetings
    /\ meetings' = record(meetings, m)
    /\ UNCHANGED <<registryVars, trackerVars, budgetVars, catalogVars, secondTrackerVars>>
    /\ UNCHANGED <<callVars, queryVars>>

\* add and record, counted
AddCounted(a) ==
    /\ Len(allocations) < MaxAllocations
    /\ allocations' = add(allocations, a)
    /\ calls' = [calls EXCEPT !.add = @ + 1]
    /\ UNCHANGED <<registryVars, trackerVars, catalogVars, secondTrackerVars, meetingVars>>
    /\ UNCHANGED queryVars

RecordCounted(m) ==
    /\ Len(meetings) < MaxMeetings
    /\ meetings' = record(meetings, m)
    /\ calls' = [calls EXCEPT !.record = @ + 1]
    /\ UNCHANGED <<registryVars, trackerVars, budgetVars, catalogVars, secondTrackerVars>>
    /\ UNCHANGED queryVars

\* the three calls on a SchemeMapper; each hands its caller a new list
AllSchemes ==
    /\ returned' = all_schemes(schemes)
    /\ lastCall' = [op |-> "all_schemes", panchayat |-> None, query |-> << >>]
    /\ UNCHANGED <<assigned, schemes>>
    /\ UNCHANGED <<registryVars, trackerVars, budgetVars, secondTrackerVars, meetingVars, callVars, queryVars>>

Search(q) ==
    /\ returned' = search(schemes, schemeObjs, q)
    /\ lastCall' = [op |-> "search", panchayat |-> None, query |-> q]
    /\ UNCHANGED <<assigned, schemes>>
    /\ UNCHANGED <<registryVars, trackerVars, budgetVars, secondTrackerVars, meetingVars, callVars, queryVars>>

FindEligible(panchayat) ==
    /\ returned' = find_eligible(schemes, schemeObjs, panchayat)
    /\ lastCall' = [op |-> "find_eligible", panchayat |-> panchayat, query |-> << >>]
    /\ UNCHANGED <<assigned, schemes>>
    /\ UNCHANGED <<registryVars, trackerVars, budgetVars, secondTrackerVars, meetingVars, callVars, queryVars>>

\* SchemeMapper(): a new catalog replaces the one in use
NewSchemeMapper ==
    /\ schemes' = new_SchemeMapper
    /\ lastCall' = [op |-> "SchemeMapper", panchayat |-> None, query |-> << >>]
    /\ UNCHANGED <<assigned, returned>>
    /\ UNCHANGED <<registryVars, trackerVars, budgetVars, secondTrackerVars, meetingVars, callVars, queryVars>>

\* what a caller does with the list it holds: result.clear(),
\* result.append(result[0]) (once per list), and result[k].field = value
\* for the first or the last record of the list
CallerClears ==
    /\ returned # << >>
    /\ returned' = << >>
    /\ UNCHANGED <<assigned, schemes, lastCall>>
    /\ UNCHANGED <<registryVars, trackerVars, budgetVars, secondTrackerVars, meetingVars, callVars, queryVars>>

CallerAppends ==
    /\ returned # << >>
    /\ Cardinality(Range(returned)) = Len(returned)
    /\ returned' = Append(returned, returned[1])
    /\ UNCHANGED <<assigned, schemes, lastCall>>
    /\ UNCHANGED <<registryVars, trackerVars, budgetVars, secondTrackerVars, meetingVars, callVars, queryVars>>

EditedRecords(objs) == {ref \in DOMAIN objs : objs[ref] # SCHEMES[ref]}

CallerSetsField(k, edit) ==
    /\ k \in {1, Len(returned)}
    /\ k \in DOMAIN returned
    /\ LET asg == SetField(assigned, returned[k], edit[1], edit[2])
       IN  /\ Cardinality(EditedRecords(ObjectsWith(asg))) <= MaxEditedRecords
           /\ assigned' = asg
    /\ UNCHANGED <<schemes, returned, lastCall>>
    /\ UNCHANGED <<registryVars, trackerVars, budgetVars, secondTrackerVars, meetingVars, callVars, queryVars>>

\* what the query q returns in the current state
Answer(q) ==
    LET op == q[1]
        arg == q[2]
    IN  CASE op = "get" -> get(panchayats, arg)
          [] op = "search_by_district" -> search_by_district(panchayats, TextOf[arg])
          [] op = "search_by_state" -> search_by_state(panchayats, TextOf[arg])
          [] op = "population_density" -> population_density(panchayats, arg)
          [] op = "all_panchayats" -> all_panchayats(panchayats)
          [] op = "get_pending" ->
                get_pending(requests, IF arg = Omitted THEN None ELSE Some(arg))
          [] op = "category_stats" -> category_stats(requests, arg)
          [] op = "resolution_rate" -> resolution_rate(requests, arg)
          [] op = "utilization_by_scheme" ->
                utilization_by_scheme(allocations, arg, QueryYear)
          [] op = "under_utilized" ->
                under_utilized(allocations, arg, QueryYear, UnderThreshold)
          [] op = "over_utilized" ->
                over_utilized(allocations, arg, QueryYear, OverThreshold)
          [] op = "total_allocation" -> total_allocation(allocations, arg, QueryYear)
          [] op = "total_utilized" -> total_utilized(allocations, arg, QueryYear)
          [] op = "recommend_reallocation" ->
                recommend_reallocation(allocations, arg, QueryYear)
          [] op = "get_meetings" -> get_meetings(meetings, arg)
          [] op = "all_action_items" -> all_action_items(meetings, arg)
          [] op = "meeting_count" -> meeting_count(meetings, arg)
          [] op = "all_schemes" -> all_schemes(schemes)
          [] op = "search" -> search(schemes, schemeObjs, TextOf[arg])
          [] op = "find_eligible" ->
                find_eligible(schemes, schemeObjs,
                    IF arg = Omitted THEN None
                    ELSE Some(CHOOSE p \in QueryUnitInputs : p.panchayat_id = arg))

\* a query that, as it answers, sorts the stored requests by priority
Query_sorting_stored(q) ==
    /\ lastQuery' = q
    /\ answered' = Answer(q)
    /\ repeated' = (lastQuery = q)
    /\ requests' = sorted_by_priority(requests)
    /\ UNCHANGED <<panchayats, lastRegistered, replaced, regLog, changedAway>>
    /\ UNCHANGED <<budgetVars, catalogVars, secondTrackerVars, meetingVars, callVars>>

\* a query call: none of the twenty methods assigns to a field of self or
\* of a stored entity; each builds its answer in new objects
Query(q) ==
    /\ lastQuery' = q
    /\ answered' = Answer(q)
    /\ repeated' = (lastQuery = q)
    /\ UNCHANGED <<registryVars, trackerVars>>
    /\ UNCHANGED <<budgetVars, catalogVars, secondTrackerVars, meetingVars, callVars>>

\* the mutating calls between the queries; after one, no query is the last
\* call.  History variables of the other specifications are not kept here.
Mutation(op, entity) ==
    /\ op = "register" =>
            /\ Len(register(panchayats, entity)) <= MaxUnits
            /\ panchayats' = register(panchayats, entity)
    /\ op = "create" =>
            /\ Len(create(requests, entity)) <= MaxRequests
            /\ requests' = create(requests, entity)
    /\ op = "update_status" =>
            requests' = update_status(requests, entity, "resolved", None).reqs
    /\ op = "add" =>
            /\ Len(allocations) < MaxAllocations
            /\ allocations' = add(allocations, entity)
    /\ op = "record" =>
            /\ Len(meetings) < MaxMeetings
            /\ meetings' = record(meetings, entity)
    /\ op # "register" => UNCHANGED panchayats
    /\ op \notin {"create", "update_status"} => UNCHANGED requests
    /\ op # "add" => UNCHANGED allocations
    /\ op # "record" => UNCHANGED meetings
    /\ lastQuery' = NoQuery
    /\ answered' = << >>
    /\ repeated' = FALSE
    /\ UNCHANGED <<lastRegistered, replaced, regLog, changedAway>>
    /\ UNCHANGED <<catalogVars, secondTrackerVars, callVars>>

\* Two ServiceTracker instances, t = 1 (requests) and t = 2 (requests2).
\* create stores the reference it is given (self._requests[id] = request)
\* and update_status assigns to the fields of the stored object, so an
\* object stored in both trackers is one object: shared holds its id.
RequestsOf(t) == IF t = 1 THEN requests ELSE requests2

\* tracker t is given a request object no other tracker holds
CreateNew(t, r) ==
    /\ Len(create(RequestsOf(t), r)) <= MaxRequests
    /\ requests' = IF t = 1 THEN create(requests, r) ELSE requests
    /\ requests2' = IF t = 2 THEN create(requests2, r) ELSE requests2
    /\ shared' = shared \ {r.request_id}
    /\ actor' = t
    /\ UNCHANGED <<registryVars, changedAway, budgetVars, catalogVars, meetingVars, callVars, queryVars>>

\* tracker t is given the object the other tracker stores under id
CreateSame(t, id) ==
    /\ IndexOfRequest(RequestsOf(3 - t), id) # 0
    /\ LET r == RequestsOf(3 - t)[IndexOfRequest(RequestsOf(3 - t), id)]
       IN  /\ Len(create(RequestsOf(t), r)) <= MaxRequests
           /\ requests' = IF t = 1 THEN create(requests, r) ELSE requests
           /\ requests2' = IF t = 2 THEN create(requests2, r) ELSE requests2
    /\ shared' = shared \cup {id}
    /\ actor' = t
    /\ UNCHANGED <<registryVars, changedAway, budgetVars, catalogVars, meetingVars, callVars, queryVars>>

\* update_status on tracker t: the assignments reach the object, and with
\* it every tracker that stores it
UpdateStatusOn(t, id, status, date) ==
    /\ requests' = IF t = 1 \/ (id \in shared /\ IndexOfRequest(requests2, id) # 0)
                   THEN update_status(requests, id, status, date).reqs
                   ELSE requests
    /\ requests2' = IF t = 2 \/ (id \in shared /\ IndexOfRequest(requests, id) # 0)
                    THEN update_status(requests2, id, status, date).reqs
                    ELSE requests2
    /\ actor' = t
    /\ UNCHANGED <<shared, registryVars, changedAway, budgetVars, catalogVars, meetingVars, callVars, queryVars>>

NextRegistry == \E p \in UnitInputs : Register(p)

NextTracker ==
    \/ \E r \in RequestInputs : Create(r)
    \/ \E id \in RequestIds, st \in Statuses, d \in DateArgs : UpdateStatus(id, st, d)

NextBudget == \E a \in AllocationInputs : Add(a)

SpecRegistry == Init /\ [][NextRegistry]_vars

SpecBudget == Init /\ [][NextBudget]_vars

NextBudgetScenario == \E a \in ScenarioInputs : AddScenario(a)

SpecBudgetScenario == Init /\ [][NextBudgetScenario]_vars

NextTrackerHist ==
    \/ \E r \in RequestInputsHist : CreateHist(r)
    \/ \E id \in RequestIds, st \in Statuses, d \in DateArgs :
          UpdateStatusHist(id, st, d)

SpecTracker == Init /\ [][NextTracker]_vars

SpecTrackerHist == Init /\ [][NextTrackerHist]_vars

NextMeetings == \E m \in MeetingInputs : Record(m)

SpecMeetings == Init /\ [][NextMeetings]_vars

NextAppendOnly ==
    \/ \E a \in CountedAllocationInputs : AddCounted(a)
    \/ \E m \in CountedMeetingInputs : RecordCounted(m)

SpecAppendOnly == Init /\ [][NextAppendOnly]_vars

NextQueries ==
    \/ \E q \in Queries : Query(q)
    \/ \E p \in QueryUnitInputs : Mutation("register", p)
    \/ \E r \in QueryRequestInputs : Mutation("create", r)
    \/ Mutation("update_status", "REQ1")
    \/ \E a \in QueryAllocationInputs : Mutation("add", a)
    \/ \E mt \in QueryMeetingInputs : Mutation("record", mt)

SpecQueries == Init /\ [][NextQueries]_vars

NextEntities ==
    \/ \E p \in EntityUnitInputs : Register(p)
    \/ \E r \in EntityRequestInputs : Create(r)

SpecEntities == Init /\ [][NextEntities]_vars

NextRegistryDensity ==
    \/ \E p \in DensityUnitInputs : Register(p)
    \/ \E p \in UnvalidatedUnitInputs : RegisterUnvalidated(p)

SpecRegistryDensity == Init /\ [][NextRegistryDensity]_vars

NextRegistrySearch == \E p \in SearchUnitInputs : RegisterLogged(p)

SpecRegistrySearch == Init /\ [][NextRegistrySearch]_vars

NextTwoTrackers ==
    \E t \in {1, 2} :
        \/ \E r \in SharedRequestInputs : CreateNew(t, r)
        \/ \E id \in {"REQ1", "REQ2"} : CreateSame(t, id)
        \/ \E id \in {"REQ1", "REQ2"}, st \in SharedStatuses, d \in SharedDateArgs :
              UpdateStatusOn(t, id, st, d)

SpecTwoTrackers == Init /\ [][NextTwoTrackers]_vars

NextCatalog ==
    \/ AllSchemes
    \/ \E q \in SearchQueries : Search(q)
    \/ \E p \in PanchayatArgs : FindEligible(p)

SpecCatalog == Init /\ [][NextCatalog]_vars

NextCatalogCaller ==
    \/ AllSchemes
    \/ \E q \in CallerQueries : Search(q)
    \/ \E p \in CallerPanchayatArgs : FindEligible(p)
    \/ NewSchemeMapper
    \/ CallerClears
    \/ CallerAppends
    \/ \E k \in 1..(Len(SCHEMES) + 1), edit \in FieldEdits : CallerSetsField(k, edit)

SpecCatalogCaller == Init /\ [][NextCatalogCaller]_vars

----------------------------------------------------------------------------
(* PanchayatRegistry: register and get                                      *)

RegisteredIds == {id \in PanchayatIds : lastRegistered[id] # None}

\* C1: after any sequence of register calls, get(id) is the unit passed to
\* the most recent register call with that id (None for an id never
\* registered), and all_panchayats holds one unit per distinct id ever
\* registered: an overwrite changes the stored unit, not the count, and no
\* id disappears.
C1_GetReturnsLastRegistered ==
    /\ \A id \in PanchayatIds : get(panchayats, id) = lastRegistered[id]
    /\ get(panchayats, "NONEXISTENT") = None
    /\ Len(all_panchayats(panchayats)) = Cardinality(RegisteredIds)
    /\ {all_panchayats(panchayats)[i].panchayat_id : i \in 1..Len(panchayats)}
         = RegisteredIds

\* an id was overwritten with a different unit while another id is stored
C1_Witness ==
    /\ replaced # {}
    /\ Len(panchayats) = 2

----------------------------------------------------------------------------
(* ServiceTracker: get_pending                                              *)

StoredIds == {requests[i].request_id : i \in 1..Len(requests)}

Stored(id) == requests[IndexOfRequest(requests, id)]

PendingIds(filter) ==
    {get_pending(requests, filter)[i].request_id :
        i \in 1..Len(get_pending(requests, filter))}

\* C2, as claimed: a request update_status has once moved off "pending" is
\* absent from every later get_pending result, with or without a filter.
C2_AbsentForEver ==
    \A id \in changedAway, f \in FilterArgs : id \notin PendingIds(f)

\* C2, amended: a request update_status has moved off "pending" is absent
\* from every get_pending result, with or without a filter, for as long as
\* its status has not been set back to "pending".
C2_AbsentWhileNotPending ==
    \A id \in changedAway :
        Stored(id).status # "pending" =>
            \A f \in FilterArgs : id \notin PendingIds(f)

\* a request moved off "pending" beside one that is still listed
C2_Witness ==
    /\ \E id \in changedAway : Stored(id).status # "pending"
    /\ PendingIds(None) # {}

\* C3: get_pending returns exactly the stored requests whose status is
\* "pending", restricted, for every unit id passed as the filter, to those of
\* that unit; only without a filter are all units included.
C3_ExactlyPendingOfUnit ==
    \A f \in FilterArgs :
        LET expected == {r \in Range(requests) :
                            /\ r.status = "pending"
                            /\ (f = None \/ r.panchayat_id = f[1])}
        IN  /\ Range(get_pending(requests, f)) = expected
            /\ Len(get_pending(requests, f)) = Cardinality(expected)

\* C4: every get_pending result is in ascending priority, and two requests
\* of equal priority are in the order their ids were inserted.
C4_SortedAndStable ==
    \A f \in FilterArgs :
        LET res == get_pending(requests, f)
        IN  \A i, j \in 1..Len(res) :
                i < j =>
                    /\ res[i].priority <= res[j].priority
                    /\ res[i].priority = res[j].priority =>
                          IndexOfRequest(requests, res[i].request_id)
                            < IndexOfRequest(requests, res[j].request_id)

\* two pending requests: of equal priority, or stored in descending priority
C4_Witness ==
    /\ Len(get_pending(requests, None)) = 2
    /\ requests[1].priority >= requests[2].priority

----------------------------------------------------------------------------
(* ServiceTracker: update_status                                            *)

\* C5: update_status with an id that is not stored returns false and leaves
\* every stored request as it was; with a stored id it returns true.
C5_UnknownIdIsNoOp ==
    \A id \in RequestIds \cup {"NONEXISTENT"}, st \in Statuses, d \in DateArgs :
        LET call == update_status(requests, id, st, d)
        IN  IF id \in StoredIds
            THEN call.ret = TRUE
            ELSE call.ret = FALSE /\ call.reqs = requests

\* an update has acted on a stored request while another id is not stored
C5_Witness ==
    /\ \E i \in 1..Len(requests) : requests[i].resolved_date # None
    /\ RequestIds \ StoredIds # {}

\* C6: update_status on a stored request sets the status, and sets the
\* resolution date only to a supplied non-empty date; with the argument
\* omitted or empty the resolution date stays what it was.
C6_DateOnlyWhenSupplied ==
    \A i \in 1..Len(requests), st \in Statuses, d \in DateArgs :
        LET after == update_status(requests, requests[i].request_id, st, d).reqs[i]
        IN  /\ after.status = st
            /\ after.resolved_date =
                  IF d # None /\ d # Some("") THEN d ELSE requests[i].resolved_date

\* a request that carries a resolution date and is not resolved
C6_Witness ==
    \E i \in 1..Len(requests) :
        /\ requests[i].resolved_date = Some("2025-02-01")
        /\ requests[i].status = "in_progress"

----------------------------------------------------------------------------
(* ServiceTracker: resolution_rate and category_stats                       *)

RateUnits == RequestUnits \cup {"GP999"}

TotalOf(unit) ==
    Cardinality({i \in 1..Len(requests) : requests[i].panchayat_id = unit})

ResolvedOf(unit) ==
    Cardinality({i \in 1..Len(requests) :
                    /\ requests[i].panchayat_id = unit
                    /\ requests[i].status = "resolved"})

\* C7: resolution_rate lies in [0, 100] (0 .. 1000 tenths) for every unit.
C7_RateInRange ==
    \A unit \in RateUnits :
        /\ resolution_rate(requests, unit) >= 0
        /\ resolution_rate(requests, unit) <= 1000

\* a unit with a rate strictly between 0 and 100
C7_Witness ==
    \E unit \in RateUnits :
        /\ resolution_rate(requests, unit) > 0
        /\ resolution_rate(requests, unit) < 1000

C9_CategoryCounts ==
    \A unit \in RateUnits :
        LET stats == category_stats(requests, unit)
            CountOf(cat) ==
                Cardinality({i \in 1..Len(requests) :
                                /\ requests[i].panchayat_id = unit
                                /\ requests[i].category = cat})
        IN  /\ DOMAIN stats = {cat \in ServiceCategory : CountOf(cat) >= 1}
            /\ \A cat \in DOMAIN stats : stats[cat] = CountOf(cat)

\* a unit with two requests of one category, one of them not pending,
\* or with a request beside another unit's
C9_Witness ==
    /\ Len(requests) = 2
    /\ \E i \in 1..Len(requests) : requests[i].status # "pending"
    /\ \E unit \in RateUnits, cat \in ServiceCategory :
          /\ cat \in DOMAIN category_stats(requests, unit)
          /\ category_stats(requests, unit)[cat] = 2

----------------------------------------------------------------------------
(* BudgetAnalyzer: recommend_reallocation                                   *)

Matching(unit, year) ==
    {i \in 1..Len(allocations) :
        /\ allocations[i].panchayat_id = unit
        /\ allocations[i].financial_year = year}

\* C10: recommend_reallocation returns one entry per added record of the
\* unit and year whose utilization percentage is below 50.0, in the order of
\* under_utilized, each naming its record's scheme; no entry when every
\* matching record is at 50.0 or more.
C10_OneEntryPerUnderUtilized ==
    \A uy \in BudgetUnitYears \cup {<<"GP999", "2024-25">>} :
        LET recs == recommend_reallocation(allocations, uy[1], uy[2])
            under == under_utilized(allocations, uy[1], uy[2], UnderThreshold)
            below == {i \in Matching(uy[1], uy[2]) :
                        utilization_pct(allocations[i]) < 500}
        IN  /\ Len(recs) = Cardinality(below)
            /\ Len(recs) = Len(under)
            /\ \A k \in 1..Len(recs) : recs[k].scheme_name = under[k].scheme_name
            /\ \A i \in below :
                  recs[Cardinality({j \in below : j <= i})].scheme_name
                    = allocations[i].scheme_name
            /\ below = {} => recs = << >>

\* two recommendations for different schemes beside a record at 50.0
C10_Witness ==
    LET recs == recommend_reallocation(allocations, "GP001", "2024-25")
    IN  /\ Len(recs) = 2
        /\ recs[1].scheme_name # recs[2].scheme_name
        /\ \E i \in Matching("GP001", "2024-25") :
              utilization_pct(allocations[i]) = 500

----------------------------------------------------------------------------
(* BudgetAnalyzer: thresholds, percentages, totals                          *)

QueryUnitYears == BudgetUnitYears \cup {<<"GP999", "2024-25">>}

\* the elements of seq at the positions in S, in ascending position
Restrict(seq, S) ==
    [k \in 1..Cardinality(S) |->
        seq[CHOOSE i \in S : Cardinality({j \in S : j <= i}) = k]]

Thresholds == {0, 490, UnderThreshold, OverThreshold, 910}

\* C11: under_utilized returns, in insertion order, exactly the records of
\* the unit and year whose utilization percentage is below the threshold
\* (50.0 by default), over_utilized exactly those above it (90.0 by
\* default); a record at the threshold is in neither.
C11_StrictThresholds ==
    /\ UnderThreshold = 500
    /\ OverThreshold = 900
    /\ \A uy \in QueryUnitYears, t \in Thresholds :
          LET under == under_utilized(allocations, uy[1], uy[2], t)
              over == over_utilized(allocations, uy[1], uy[2], t)
              M == Matching(uy[1], uy[2])
          IN  /\ under = Restrict(allocations,
                            {i \in M : utilization_pct(allocations[i]) < t})
              /\ over = Restrict(allocations,
                            {i \in M : utilization_pct(allocations[i]) > t})
              /\ \A i \in M :
                    utilization_pct(allocations[i]) = t =>
                        /\ allocations[i] \notin Range(under)
                        /\ allocations[i] \notin Range(over)

\* records at 50.0 and at 90.0 percent beside one above 90.0
C11_Witness ==
    LET M == Matching("GP001", "2024-25")
    IN  /\ \E i \in M : utilization_pct(allocations[i]) = 500
        /\ \E i \in M : utilization_pct(allocations[i]) = 900
        /\ Len(over_utilized(allocations, "GP001", "2024-25", OverThreshold)) = 1

\* C12: utilization_pct is utilized / allocated * 100 rounded to one decimal
\* (the nearest tenth, a tie to the even one) when allocated > 0, and 0 when
\* allocated = 0, whatever the utilized amount.
C12_PctIsRoundedShare ==
    \A i \in 1..Len(allocations) :
        LET a == allocations[i]
            pct == utilization_pct(a)
            diff == pct * a.allocated_amount - a.utilized_amount * 1000
        IN  /\ a.allocated_amount = 0 => pct = 0
            /\ a.allocated_amount > 0 =>
                  /\ 2 * diff <= a.allocated_amount
                  /\ 2 * diff >= - a.allocated_amount
                  /\ (2 * diff = a.allocated_amount \/ 2 * diff = - a.allocated_amount)
                        => pct % 2 = 0

\* nothing allocated but an amount utilized, a percentage rounded up to
\* 50.0, and a tie
C12_Witness ==
    /\ \E i \in 1..Len(allocations) :
          allocations[i].allocated_amount = 0 /\ allocations[i].utilized_amount > 0
    /\ \E i \in 1..Len(allocations) :
          allocations[i].allocated_amount = 3000 /\ utilization_pct(allocations[i]) = 500
    /\ \E i \in 1..Len(allocations) :
          allocations[i].allocated_amount = 16 /\ utilization_pct(allocations[i]) = 62

\* the sum of f over the positions in S
RECURSIVE SumAt(_, _)
SumAt(S, f) ==
    IF S = {} THEN 0
    ELSE LET i == CHOOSE j \in S : TRUE
         IN  f[i] + SumAt(S \ {i}, f)

TheScenario ==
    /\ Cardinality(Matching("GP001", "2024-25")) = 4
    /\ ScenarioRecords \subseteq Range(allocations)

\* C13: total_allocation and total_utilized are the sums of the allocated
\* and utilized amounts over every added record of the unit and year
\* (duplicates counted), 0 when none matches; with the scenario's four
\* records they are 1,750,000 and 1,318,000 and recommend_reallocation
\* returns one line, for PMAY-Gramin with 210,000 unspent.
C13_TotalsAreSums ==
    /\ \A uy \in QueryUnitYears :
          LET M == Matching(uy[1], uy[2])
          IN  /\ total_allocation(allocations, uy[1], uy[2])
                    = SumAt(M, [i \in M |-> allocations[i].allocated_amount])
              /\ total_utilized(allocations, uy[1], uy[2])
                    = SumAt(M, [i \in M |-> allocations[i].utilized_amount])
              /\ M = {} =>
                    /\ total_allocation(allocations, uy[1], uy[2]) = 0
                    /\ total_utilized(allocations, uy[1], uy[2]) = 0
    /\ TheScenario =>
          /\ total_allocation(allocations, "GP001", "2024-25") = 1750000
          /\ total_utilized(allocations, "GP001", "2024-25") = 1318000
          /\ recommend_reallocation(allocations, "GP001", "2024-25")
                = <<[unused |-> 210000, scheme_name |-> "PMAY-Gramin", pct |-> 30]>>

\* the four records of the scenario have been added
C13_Witness == TheScenario

\* C14: utilization_by_scheme has one key per scheme name among the records
\* of the unit and year, and the value is the percentage of the last added
\* of them with that name; other units' and years' records have no effect.
C14_LastRecordWins ==
    \A uy \in QueryUnitYears :
        LET M == Matching(uy[1], uy[2])
            byScheme == utilization_by_scheme(allocations, uy[1], uy[2])
            LastOf(sc) ==
                CHOOSE i \in M :
                    /\ allocations[i].scheme_name = sc
                    /\ \A j \in M : allocations[j].scheme_name = sc => j <= i
        IN  /\ DOMAIN byScheme = {allocations[i].scheme_name : i \in M}
            /\ \A sc \in DOMAIN byScheme :
                  byScheme[sc] = utilization_pct(allocations[LastOf(sc)])

\* two records of one scheme with different percentages, and a record of
\* another unit or year
C14_Witness ==
    /\ \E i, j \in Matching("GP001", "2024-25") :
          /\ i < j
          /\ allocations[i].scheme_name = allocations[j].scheme_name
          /\ utilization_pct(allocations[i]) # utilization_pct(allocations[j])
    /\ Cardinality(Matching("GP001", "2024-25")) < Len(allocations)

----------------------------------------------------------------------------
(* SchemeMapper: find_eligible                                              *)

\* the records find_eligible gives for the unit u in the current state
EligibleFor(u) == Deref(find_eligible(schemes, schemeObjs, Some(u)), schemeObjs)

HasTag(records, tag) ==
    \E i \in 1..Len(records) : records[i].eligible_panchayats = tag

\* C15: find_eligible(unit) includes the scheme tagged census_towns exactly
\* when the unit's population is greater than 5000, and the scheme tagged
\* unconnected_habitations exactly when the population is at least 250; the
\* list the last find_eligible call returned for a unit obeys the same rule.
C15_PopulationThresholds ==
    /\ \A u \in CatalogUnits :
          /\ HasTag(EligibleFor(u), "census_towns") <=> u.population > 5000
          /\ HasTag(EligibleFor(u), "unconnected_habitations") <=> u.population >= 250
    /\ (lastCall.op = "find_eligible" /\ lastCall.panchayat # None) =>
          LET u == lastCall.panchayat[1]
              got == Deref(returned, schemeObjs)
          IN  /\ HasTag(got, "census_towns") <=> u.population > 5000
              /\ HasTag(got, "unconnected_habitations") <=> u.population >= 250

\* find_eligible was called for a unit of exactly 5000 inhabitants: the
\* census-town scheme is left out, the habitation scheme is in
C15_Witness ==
    /\ lastCall.op = "find_eligible"
    /\ lastCall.panchayat # None
    /\ lastCall.panchayat[1].population = 5000
    /\ ~ HasTag(Deref(returned, schemeObjs), "census_towns")
    /\ HasTag(Deref(returned, schemeObjs), "unconnected_habitations")
    /\ HasTag(EligibleFor(CHOOSE u \in CatalogUnits : u.population = 6000),
              "census_towns")
    /\ ~ HasTag(EligibleFor(CHOOSE u \in CatalogUnits : u.population = 249),
                "unconnected_habitations")

AlwaysEligibleTags ==
    {"all", "all_rural", "all_bpl", "farming_households", "houseless_kutcha"}

RecognisedTags == AlwaysEligibleTags \cup {"census_towns", "unconnected_habitations"}

\* the catalog, cut down to the references that occur in the list
CatalogPartIn(list) ==
    LET In(ref) == ref \in Range(list)
    IN  SelectSeq(schemes, In)

\* C16: find_eligible without a unit returns the whole catalog of 15; with
\* a unit, every scheme whose tag is all, all_rural, all_bpl,
\* farming_households or houseless_kutcha is included, a scheme whose tag is
\* none of the seven recognised ones is excluded, and the result holds each
\* included scheme once, in catalog order.
C16_TagsAndOrder ==
    /\ Len(find_eligible(schemes, schemeObjs, None)) = 15
    /\ find_eligible(schemes, schemeObjs, None) = schemes
    /\ \A u \in CatalogUnits :
          LET result == find_eligible(schemes, schemeObjs, Some(u))
          IN  /\ \A i \in 1..Len(schemes) :
                    LET tag == schemeObjs[schemes[i]].eligible_panchayats
                    IN  /\ tag \in AlwaysEligibleTags => schemes[i] \in Range(result)
                        /\ tag \notin RecognisedTags => schemes[i] \notin Range(result)
              /\ Cardinality(Range(result)) = Len(result)
              /\ result = CatalogPartIn(result)

\* a record carries a tag outside the seven, and find_eligible, called for a
\* unit after that, has left it out and kept the others
C16_Witness ==
    /\ lastCall.op = "find_eligible"
    /\ lastCall.panchayat # None
    /\ returned = find_eligible(schemes, schemeObjs, lastCall.panchayat)
    /\ \E i \in 1..Len(schemes) :
          /\ schemeObjs[schemes[i]].eligible_panchayats \notin RecognisedTags
          /\ schemes[i] \notin Range(returned)
    /\ Len(returned) >= 13

----------------------------------------------------------------------------
(* SchemeMapper: the catalog and the lists it hands out                     *)

\* C17: whatever a caller does to a list it was given or to a record of
\* that list, all_schemes, search and find_eligible, on the catalog in use
\* and on a new one, still give the original records with their original
\* field values.
C17_OriginalRecordsForEver ==
    \A list \in {schemes, new_SchemeMapper} :
        /\ Deref(all_schemes(list), schemeObjs) = SCHEMES
        /\ \A q \in CallerQueries :
              Deref(search(list, schemeObjs, q), schemeObjs)
                  = Deref(search(ModuleSchemes, SCHEMES, q), SCHEMES)
        /\ \A p \in CallerPanchayatArgs :
              Deref(find_eligible(list, schemeObjs, p), schemeObjs)
                  = Deref(find_eligible(ModuleSchemes, SCHEMES, p), SCHEMES)

\* C18: under all_schemes, search and find_eligible calls the catalog holds
\* exactly 15 records and all_schemes returns all of them in the order of
\* _SCHEMES; the list the last all_schemes call returned is that list.
C18_FifteenInFixedOrder ==
    /\ Len(schemes) = 15
    /\ Len(all_schemes(schemes)) = 15
    /\ Deref(all_schemes(schemes), schemeObjs) = SCHEMES
    /\ lastCall.op = "all_schemes" => Deref(returned, schemeObjs) = SCHEMES

\* all_schemes was called after a search that returned a proper part
C18_Witness ==
    /\ lastCall.op = "all_schemes"
    /\ Len(returned) = 15
    /\ \E q \in SearchQueries : Len(search(schemes, schemeObjs, q)) \in 1..14

----------------------------------------------------------------------------
(* Two trackers                                                             *)

\* what the queries of a tracker give
QueriesOf(reqs) ==
    [pending |-> [f \in FilterArgs |-> get_pending(reqs, f)],
     stats |-> [u \in RateUnits |-> category_stats(reqs, u)],
     rate |-> [u \in RateUnits |-> resolution_rate(reqs, u)]]

\* C19: a create or update_status call on one tracker leaves the result of
\* every query on the other tracker unchanged, also when the same
\* ServiceRequest was created in both.
C19_OtherTrackerUnchanged ==
    [][/\ actor' = 1 => QueriesOf(requests2') = QueriesOf(requests2)
       /\ actor' = 2 => QueriesOf(requests') = QueriesOf(requests)]_vars

----------------------------------------------------------------------------
(* PanchayatRegistry: search_by_district and search_by_state                *)

\* two characters that are the same letter, whatever their case
SameLetter(a, b) ==
    \/ a = b
    \/ a \in DOMAIN UpperToLower /\ UpperToLower[a] = b
    \/ b \in DOMAIN UpperToLower /\ UpperToLower[b] = a

ContainsIgnoringCase(sub, str) ==
    \E k \in 0..(Len(str) - Len(sub)) :
        \A i \in 1..Len(sub) : SameLetter(str[k + i], sub[i])

IdsOf(units) == [i \in 1..Len(units) |-> units[i].panchayat_id]

\* the ids of a log of calls, each once: at its first or at its last call
RECURSIVE ByFirstCall(_)
ByFirstCall(log) ==
    IF log = << >> THEN << >>
    ELSE LET before == ByFirstCall(SubSeq(log, 1, Len(log) - 1))
             id == log[Len(log)]
         IN  IF id \in Range(before) THEN before ELSE Append(before, id)

RECURSIVE ByLastCall(_)
ByLastCall(log) ==
    IF log = << >> THEN << >>
    ELSE LET NotLast(id) == id # log[Len(log)]
         IN  Append(SelectSeq(ByLastCall(SubSeq(log, 1, Len(log) - 1)), NotLast),
                    log[Len(log)])

\* the registered units with a matching field, at the places an order of
\* the ids gives them
MatchingInOrder(order, IsMatch(_)) ==
    LET IsHit(id) == lastRegistered[id] # None /\ IsMatch(lastRegistered[id][1])
        hits == SelectSeq(order, IsHit)
    IN  [i \in 1..Len(hits) |-> lastRegistered[hits[i]][1]]

\* the result of both searches is the units whose field contains the query,
\* case ignored, at the places the order gives
SearchesFollow(order) ==
    /\ \A q \in DistrictQueries :
          LET IsMatch(p) == ContainsIgnoringCase(q, p.district)
          IN  search_by_district(panchayats, q) = MatchingInOrder(order, IsMatch)
    /\ \A q \in StateQueries :
          LET IsMatch(p) == ContainsIgnoringCase(q, p.state)
          IN  search_by_state(panchayats, q) = MatchingInOrder(order, IsMatch)

\* C20, as claimed: search_by_district and search_by_state return exactly
\* the registered units whose district, or state, contains the query as a
\* substring, case ignored, in the order in which the units were registered.
C20_InRegistrationOrder == SearchesFollow(ByLastCall(regLog))

ThreeDistricts ==
    /\ Len(panchayats) = 3
    /\ [i \in 1..3 |-> panchayats[i].district] = <<Pune, Pune, Jodhpur>>

\* C20, amended: the matching units come in the order in which their ids
\* were first registered (a unit registered again under an id takes the
\* place of that id); with units in districts Pune, Pune, Jodhpur the
\* query "pune" gives the two Pune units in that order.
C20_InFirstRegistrationOrder ==
    /\ SearchesFollow(ByFirstCall(regLog))
    /\ ThreeDistricts =>
          search_by_district(panchayats, <<"p", "u", "n", "e">>)
              = <<panchayats[1], panchayats[2]>>

\* the three units of the scenario are registered, and one of them has been
\* registered again after the others
C20_Witness ==
    /\ ThreeDistricts
    /\ ByFirstCall(regLog) # ByLastCall(regLog)
    /\ Len(search_by_district(panchayats, <<"P", "U", "N", "E">>)) = 2
    /\ search_by_district(panchayats, <<"x", "y", "z">>) = << >>

----------------------------------------------------------------------------
(* PanchayatRegistry: population_density                                    *)

\* C21: population_density(id) is population / area rounded to one decimal
\* (the nearest tenth, a tie to the even one) for a registered unit with
\* area > 0, and 0 for an id that is not registered and for a registered
\* unit whose area is 0.
C21_DensityIsRoundedQuotient ==
    \A id \in PanchayatIds :
        LET d == population_density(panchayats, id)
            i == IndexOfUnit(panchayats, id)
        IN  IF i = 0 THEN d = 0
            ELSE LET p == panchayats[i]
                     diff == d * p.area_sq_km - p.population * 10
                 IN  /\ p.area_sq_km = 0 => d = 0
                     /\ p.area_sq_km > 0 =>
                           /\ 2 * diff <= p.area_sq_km
                           /\ 2 * diff >= - p.area_sq_km
                           /\ (2 * diff = p.area_sq_km \/ 2 * diff = - p.area_sq_km)
                                 => d % 2 = 0

\* a unit without area and a unit whose quotient is rounded up are
\* registered, and a third id is not
C21_Witness ==
    /\ Len(panchayats) = 2
    /\ panchayats[1].area_sq_km = 0
    /\ population_density(panchayats, panchayats[1].panchayat_id) = 0
    /\ panchayats[2].population = 1201
    /\ population_density(panchayats, panchayats[2].panchayat_id) = 1716
    /\ population_density(panchayats, "GP003") = 0

----------------------------------------------------------------------------
(* Entity constraints                                                       *)

----------------------------------------------------------------------------
(* MeetingManager: get_meetings, all_action_items, meeting_count            *)

MeetingUnits == {"GP001", "GP002", "GP999"}

\* the places of the recorded meetings of a unit
PlacesOf(unit) == {i \in 1..Len(meetings) : meetings[i].panchayat_id = unit}

\* the number of action items of the meetings at the places S
RECURSIVE ItemsAt(_)
ItemsAt(S) ==
    IF S = {} THEN 0
    ELSE LET i == CHOOSE x \in S : TRUE
         IN  Len(meetings[i].action_items) + ItemsAt(S \ {i})

\* C23: all_action_items(unit) holds the action items of the unit's
\* recorded meetings, meeting after meeting in the order of recording and in
\* list order inside a meeting, and nothing of other units; its length is
\* the sum of the lists' lengths; meeting_count(unit) is the length of
\* get_meetings(unit).
C23_ActionItemsInOrder ==
    \A unit \in MeetingUnits :
        LET items == all_action_items(meetings, unit)
        IN  /\ Len(items) = ItemsAt(PlacesOf(unit))
            /\ \A i \in PlacesOf(unit) :
                  \A j \in 1..Len(meetings[i].action_items) :
                      items[ItemsAt({k \in PlacesOf(unit) : k < i}) + j]
                          = meetings[i].action_items[j]
            /\ get_meetings(meetings, unit) = Restrict(meetings, PlacesOf(unit))
            /\ meeting_count(meetings, unit) = Len(get_meetings(meetings, unit))

\* two meetings of one unit with different action items, a meeting of
\* another unit between them
C23_Witness ==
    /\ Len(meetings) = 3
    /\ meetings[1].panchayat_id = "GP001"
    /\ meetings[2].panchayat_id = "GP002"
    /\ meetings[3].panchayat_id = "GP001"
    /\ Len(meetings[1].action_items) = 2
    /\ Len(meetings[2].action_items) = 1
    /\ meetings[3].action_items = <<"Repair handpump">>
    /\ all_action_items(meetings, "GP001")
          = <<"Survey roads", "Repair handpump", "Repair handpump">>
    /\ meeting_count(meetings, "GP001") = 2

----------------------------------------------------------------------------
(* BudgetAnalyzer and MeetingManager: the stored sequences                  *)

\* seq is the sequence before, with one element after it
OneMoreAtEnd(before, after) ==
    /\ Len(after) = Len(before) + 1
    /\ SubSeq(after, 1, Len(before)) = before

\* C24: each add and each record call puts exactly one element at the end
\* of the stored sequence, what was stored staying in front of it as it
\* was, also when an equal record is already stored; nothing else changes
\* either sequence.
C24_AppendOnly ==
    [][/\ IF calls'.add = calls.add + 1
          THEN OneMoreAtEnd(allocations, allocations')
          ELSE allocations' = allocations
       /\ IF calls'.record = calls.record + 1
          THEN OneMoreAtEnd(meetings, meetings')
          ELSE meetings' = meetings]_vars

\* an allocation and a meeting have each been stored twice
C24_Witness ==
    /\ Len(allocations) = 3
    /\ allocations[1] = allocations[3]
    /\ allocations[1] # allocations[2]
    /\ Len(meetings) = 2
    /\ meetings[1] = meetings[2]
    /\ calls = [add |-> 3, record |-> 2]

----------------------------------------------------------------------------
(* Queries                                                                  *)

----------------------------------------------------------------------------
(* ServiceTracker: what update_status leaves alone                          *)

\* C26: update_status on a stored id keeps the stored ids and their order,
\* every other request as it was, and of the request itself everything
\* but status and resolved_date.
C26_OnlyStatusAndDate ==
    \A id \in StoredIds, st \in Statuses, d \in DateArgs :
        LET after == update_status(requests, id, st, d).reqs
        IN  /\ Len(after) = Len(requests)
            /\ \A i \in 1..Len(requests) :
                  IF requests[i].request_id # id
                  THEN after[i] = requests[i]
                  ELSE /\ after[i].request_id = id
                       /\ after[i].panchayat_id = requests[i].panchayat_id
                       /\ after[i].category = requests[i].category
                       /\ after[i].priority = requests[i].priority
                       /\ after[i].description = requests[i].description
                       /\ after[i].submitted_date = requests[i].submitted_date

\* a request of priority 1 has been updated while another request, still
\* as created, is stored
C26_Witness ==
    /\ Len(requests) = 2
    /\ \E i, j \in 1..2 :
          /\ requests[i].priority = 1
          /\ requests[i].status = "in_progress"
          /\ requests[i].resolved_date = Some("2025-02-01")
          /\ requests[j].status = "pending"
          /\ requests[j].resolved_date = None
          /\ requests[j].priority = 3

\* C27: update_status sets the resolution date whenever a non-empty date is
\* supplied, whatever the new status, and never clears one: a request that
\* has a date has one after any update_status call, also one that sets the
\* status back to "pending".
C27_DateSetNeverCleared ==
    \A id \in StoredIds, st \in Statuses, d \in DateArgs :
        LET before == Stored(id)
            after == update_status(requests, id, st, d).reqs[IndexOfRequest(requests, id)]
        IN  /\ Truthy(d) => after.resolved_date = d
            /\ before.resolved_date # None => after.resolved_date # None
            /\ after.status = st

\* a request with a resolution date whose status is "pending": get_pending
\* lists it
C27_Witness ==
    \E i \in 1..Len(requests) :
        /\ requests[i].status = "pending"
        /\ requests[i].resolved_date = Some("2025-02-01")
        /\ requests[i] \in Range(get_pending(requests, None))

----------------------------------------------------------------------------
(* BudgetAnalyzer: the amounts recommend_reallocation names                 *)

\* C28: every recommendation names an unspent amount of at least 0: every
\* record under_utilized returns at the default threshold has utilized not
\* above allocated.
C28_UnspentNotNegative ==
    \A uy \in QueryUnitYears :
        /\ \A i \in 1..Len(recommend_reallocation(allocations, uy[1], uy[2])) :
              recommend_reallocation(allocations, uy[1], uy[2])[i].unused >= 0
        /\ \A i \in 1..Len(under_utilized(allocations, uy[1], uy[2], UnderThreshold)) :
              LET a == under_utilized(allocations, uy[1], uy[2], UnderThreshold)[i]
              IN  a.utilized_amount <= a.allocated_amount

----------------------------------------------------------------------------
(* Overwriting an id                                                        *)

RequestIdsOf(reqs) == [i \in 1..Len(reqs) |-> reqs[i].request_id]

\* C29: register, or create, with an id that is stored puts the new record
\* at the place of that id: the order of all_panchayats and of the search
\* results, and the order among requests of equal priority in get_pending,
\* stay those of the ids' first insertion.
C29_OverwriteKeepsPlace ==
    /\ \A p \in EntityUnitInputs :
          IndexOfUnit(panchayats, p.panchayat_id) # 0 =>
              LET after == register(panchayats, p)
              IN  /\ IdsOf(all_panchayats(after)) = IdsOf(all_panchayats(panchayats))
                  /\ after[IndexOfUnit(panchayats, p.panchayat_id)] = p
                  /\ IdsOf(search_by_district(after, <<"p", "u", "n", "e">>))
                        = IdsOf(search_by_district(panchayats, <<"p", "u", "n", "e">>))
                  /\ IdsOf(search_by_state(after, <<"M", "A", "H", "A">>))
                        = IdsOf(search_by_state(panchayats, <<"M", "A", "H", "A">>))
    /\ \A r \in EntityRequestInputs :
          IndexOfRequest(requests, r.request_id) # 0 =>
              LET after == create(requests, r)
                  res == get_pending(after, None)
              IN  /\ RequestIdsOf(after) = RequestIdsOf(requests)
                  /\ after[IndexOfRequest(requests, r.request_id)] = r
                  /\ \A i, j \in 1..Len(res) :
                        (i < j /\ res[i].priority = res[j].priority) =>
                            IndexOfRequest(requests, res[i].request_id)
                              < IndexOfRequest(requests, res[j].request_id)

\* the unit stored first has been registered again with other values, and
\* the request stored first can be created again with the priority of the
\* second
C29_Witness ==
    /\ Len(panchayats) = 2
    /\ panchayats[1].panchayat_id \in replaced
    /\ Len(requests) = 2
    /\ \E r \in EntityRequestInputs :
          /\ r.request_id = requests[1].request_id
          /\ r # requests[1]
          /\ r.priority = requests[2].priority
          /\ RequestIdsOf(get_pending(create(requests, r), None))
                = RequestIdsOf(requests)

----------------------------------------------------------------------------
(* SchemeMapper: find_eligible and the population                           *)

\* a is b with some elements left out
IsSubsequence(a, b) ==
    LET In(x) == x \in Range(a)
    IN  /\ Cardinality(Range(a)) = Len(a)
        /\ SelectSeq(b, In) = a

\* C30: find_eligible(unit) depends on the unit's population alone and
\* grows with it: units of equal population get the same list, a unit of
\* smaller population gets a subsequence of the list of a larger one, and
\* the built-in catalog gives 13 schemes below 250, 14 from 250 to 5000 and
\* 15 above 5000.
C30_PopulationAlone ==
    \A u \in CatalogUnits :
        LET forU == find_eligible(schemes, schemeObjs, Some(u))
        IN  /\ \A v \in CatalogUnits :
                  LET forV == find_eligible(schemes, schemeObjs, Some(v))
                  IN  /\ u.population = v.population => forU = forV
                      /\ u.population <= v.population => IsSubsequence(forU, forV)
            /\ u.population < 250 => Len(forU) = 13
            /\ (u.population >= 250 /\ u.population <= 5000) => Len(forU) = 14
            /\ u.population > 5000 => Len(forU) = 15

\* find_eligible was called for a unit of 249 inhabitants and returned 13
\* schemes; units of 250 and of 5001 inhabitants get 14 and 15
C30_Witness ==
    /\ lastCall.op = "find_eligible"
    /\ lastCall.panchayat # None
    /\ lastCall.panchayat[1].population = 249
    /\ lastCall.panchayat[1].district = Jodhpur
    /\ Len(returned) = 13
    /\ \E v, w \in CatalogUnits :
          /\ v.population = 250
          /\ w.population = 5001
          /\ Len(find_eligible(schemes, schemeObjs, Some(v))) = 14
          /\ Len(find_eligible(schemes, schemeObjs, Some(w))) = 15
          /\ IsSubsequence(returned, find_eligible(schemes, schemeObjs, Some(v)))

====
